---- MODULE Spec2Model ----
(***************************************************************************)
(* A model of ccbox-fuse (src/native/ccbox-fuse.c): the directory-name     *)
(* translator, the two content transforms, the three caches and the        *)
(* filesystem handlers that use them.                                      *)
(*                                                                         *)
(* Byte buffers and C strings are sequences of one-character strings.      *)
(* Positions are 1-based here and 0-based in the C source, so the C test   *)
(* `i + 2 < len` reads `i + 1 < Len(buf)` below.                           *)
(***************************************************************************)
EXTENDS Integers, Sequences, FiniteSets, TLC

VARIABLES
    source_dir,     \* char *source_dir
    mappings,       \* PathMapping mappings[], in insertion order
    dir_mappings,   \* DirMapping dir_mappings[], in insertion order
    \* --- pure-function harness (transforms, path resolution) ---
    t_in,           \* the buffer handed to the first transform
    t_mid,          \* what the caller holds after the first transform
    t_out,          \* what the caller holds after the second transform
    t_op,           \* which transforms were applied: "none", "tc", "tc_th", "tc_tc", ...
    \* --- directory harness (readdir, get_source_path) ---
    d_entries,      \* the backing directory: a set of [name, isdir]
    d_listing,      \* what the filler received: a set of [name, from]
    d_done,         \* TRUE once read-directory ran
    r_segs,         \* the segments of the request path last resolved
    r_path,         \* the request path last resolved
    r_res,          \* the result of get_source_path on r_path
    r_from,         \* the backing entry a listed name was looked up for, or <<>>
    \* --- filesystem layer ---
    now,            \* monotonic_sec(): CLOCK_MONOTONIC_COARSE in whole seconds
    f_dir,          \* the backing directory tree: backing path -> inode, 0 when absent
    f_ino,          \* the backing files: inode -> [content, mtime]
    f_lock,         \* flock: inode -> the thread holding LOCK_EX, 0 when free
    g_neg_cache,    \* NegCacheEntry g_neg_cache[]
    g_neg_cache_idx,\* unsigned int g_neg_cache_idx
    g_rcache,       \* RCacheEntry g_rcache[]
    g_rcache_seq,   \* unsigned long g_rcache_seq
    g_scache,       \* SCacheEntry g_scache[]
    s_idx,          \* static unsigned int s_idx of scache_insert
    thr,            \* per request thread: where it stands in its handler, and its locals
    ops_left,       \* requests the callers may still issue
    last,           \* what the request that returned last gave its caller
    h_hist,         \* history: every [path, mtime, content] a backing path has held
    h_write,        \* history: per inode, the mtime before and after its last write
    h_neg,          \* history: per backing path, its last NegCache insertion
    \* --- startup (main) ---
    m_args,         \* struct ccbox_config after fuse_opt_parse, with the environment
    m_state,        \* "start", "exit1" (main returned 1) or "mounted" (fuse_main runs)
    \* --- interposition library (fakepath.c) ---
    i_env,          \* the process environment: CCBOX_WIN_ORIGINAL_PATH and getcwd()
    g_initialized,  \* static int g_initialized
    g_windows_path, \* static char *g_windows_path
    g_container_path,\* static char *g_container_path
    g_windows_len,  \* static size_t g_windows_len
    g_container_len,\* static size_t g_container_len
    real_absent,    \* the real entry points dlsym(RTLD_NEXT) did not resolve
    errno,          \* the caller's errno, by name ("0" when clear)
    i_call          \* the intercepted call that returned last

----------------------------------------------------------------------------
(* Characters *)

BS  == "\\"      \* one backslash byte
DQ  == "\""      \* one double-quote byte
NUL == "NUL"     \* the zero byte

Upper == <<"A","B","C","D","E","F","G","H","I","J","K","L","M",
           "N","O","P","Q","R","S","T","U","V","W","X","Y","Z">>
Lower == <<"a","b","c","d","e","f","g","h","i","j","k","l","m",
           "n","o","p","q","r","s","t","u","v","w","x","y","z">>

Range(s) == {s[k] : k \in DOMAIN s}

isalpha(c) == c \in Range(Upper) \cup Range(Lower)

tolower(c) ==
    IF c \in Range(Upper)
    THEN Lower[CHOOSE k \in DOMAIN Upper : Upper[k] = c]
    ELSE c

\* "VT" stands for the vertical-tab byte
isspace(c) == c \in {" ", "\t", "\n", "\f", "\r", "VT"}

\* the four JSON delimiters the extraction and remainder loops stop at
JsonDelims == {DQ, ",", "}", "]"}

\* strncmp(buf + (i-1), s, Len(s)) == 0, with the length guard of the caller
\* (or the terminating NUL of a C string) making a short buffer a mismatch
HasPrefixAt(buf, i, s) ==
    /\ i - 1 + Len(s) <= Len(buf)
    /\ SubSeq(buf, i, i - 1 + Len(s)) = s

\* the C string held in a char array: the bytes before the first NUL
RECURSIVE CStr(_)
CStr(s) ==
    IF s = <<>> \/ Head(s) = NUL THEN <<>> ELSE <<Head(s)>> \o CStr(Tail(s))

----------------------------------------------------------------------------
(* Sizes.  The C constants are far beyond what can be enumerated, so the    *)
(* buffer limit is scaled down; the headrooms keep their values.           *)

\* #define MAX_PATH_LEN 4096, scaled
MAX_PATH_LEN == 10

TRANSFORM_HEADROOM == 4194304

\* the 256 bytes apply_dirmap adds to its allocation, scaled
DIRMAP_HEADROOM == 4

\* the 8 occurrences per mapping apply_dirmap allows for, scaled
DIRMAP_MARGIN == 1

----------------------------------------------------------------------------
(* Configuration *)

RECURSIVE BackslashToSlash(_)
BackslashToSlash(s) ==
    IF s = <<>> THEN <<>>
    ELSE <<IF Head(s) = BS THEN "/" ELSE Head(s)>> \o BackslashToSlash(Tail(s))

RECURSIVE StripTrailingSlashes(_)
StripTrailingSlashes(s) ==
    IF Len(s) > 1 /\ s[Len(s)] = "/"
    THEN StripTrailingSlashes(SubSeq(s, 1, Len(s) - 1))
    ELSE s

normalize_path(path) == StripTrailingSlashes(BackslashToSlash(path))

\* the PathMapping that add_mapping(from, to) stores; drive "" is the C 0
add_mapping(from, to) ==
    LET f == normalize_path(from)
        wsl == HasPrefixAt(f, 1, <<"/","m","n","t","/">>) /\ Len(f) >= 6 /\ isalpha(f[6])
    IN  [ from   |-> f,
          to     |-> normalize_path(to),
          drive  |-> IF wsl THEN tolower(f[6])
                     ELSE IF Len(f) >= 2 /\ f[2] = ":" THEN tolower(f[1])
                     ELSE "",
          is_unc |-> Len(f) >= 2 /\ f[1] = "/" /\ f[2] = "/",
          is_wsl |-> wsl ]

\* the DirMapping that parse_dirmap stores for "container:native"
DirMap(c, n) == [container_name |-> c, native_name |-> n]

mapping_count == Len(mappings)
dir_mapping_count == Len(dir_mappings)

----------------------------------------------------------------------------
(* 4.1 Directory-name translator: request path -> backing path *)

\* the first mapping whose container_name is at p, bounded by '/' or the end,
\* and whose native_name still fits; 0 when there is none
GspMatch(path, p, ti) ==
    LET ok(m) ==
            LET c == dir_mappings[m].container_name
            IN  /\ HasPrefixAt(path, p, c)
                /\ (p + Len(c) > Len(path) \/ path[p + Len(c)] = "/")
                /\ ti + Len(dir_mappings[m].native_name) < MAX_PATH_LEN
        S == {m \in 1..dir_mapping_count : ok(m)}
    IN  IF S = {} THEN 0 ELSE CHOOSE m \in S : \A k \in S : m <= k

\* the while loop of get_source_path: p is the read position in path,
\* translated the bytes written so far (ti = Len(translated))
RECURSIVE GspLoop(_, _, _)
GspLoop(path, p, translated) ==
    IF p <= Len(path) /\ Len(translated) < MAX_PATH_LEN - 1
    THEN IF path[p] = "/"
         THEN LET t1 == Append(translated, "/")
                  m  == GspMatch(path, p + 1, Len(t1))
              IN  IF m = 0
                  THEN GspLoop(path, p + 1, t1)
                  ELSE GspLoop(path, p + 1 + Len(dir_mappings[m].container_name),
                               t1 \o dir_mappings[m].native_name)
         ELSE GspLoop(path, p + 1, Append(translated, path[p]))
    ELSE translated

\* get_source_path(dest, path, MAX_PATH_LEN): rc 0 and dest, or -ENAMETOOLONG
get_source_path(path) ==
    LET translated ==
            IF dir_mapping_count > 0 /\ Len(path) > 0 /\ path[1] = "/"
            THEN GspLoop(path, 1, <<>>)
            ELSE path
        dest == source_dir \o translated
    IN  IF Len(dest) >= MAX_PATH_LEN
        THEN [rc |-> "ENAMETOOLONG", dest |-> <<>>]
        ELSE [rc |-> "OK", dest |-> dest]

\* snprintf(native_path, MAX_PATH_LEN, ...): the output cut to the buffer
Snprintf(s) == IF Len(s) >= MAX_PATH_LEN THEN SubSeq(s, 1, MAX_PATH_LEN - 1) ELSE s

\* lstat(p) == 0 && S_ISDIR: p is the enumerated directory or a directory in it
LstatIsDir(p, fpath, entries) ==
    \/ p \in {fpath, fpath \o <<"/">>}
    \/ \E e \in entries : e.isdir /\ p = fpath \o <<"/">> \o e.name

\* a read-directory that never suppresses a literal container_name entry
ReaddirSkip_NoDedup(m, fpath, entries) == FALSE

\* the dedup test of ccbox_readdir for mapping m: the native_name sibling
\* exists on disk and is a directory
ReaddirSkip(m, fpath, entries) ==
    LstatIsDir(Snprintf(fpath \o <<"/">> \o dir_mappings[m].native_name), fpath, entries)

\* the for loop of ccbox_readdir over the dir mappings for one dirent: the
\* loop breaks at the first mapping whose native_name or container_name is
\* the entry's name
to_visible(d_name, fpath, entries) ==
    LET S == {m \in 1..dir_mapping_count :
                 d_name = dir_mappings[m].native_name
                 \/ d_name = dir_mappings[m].container_name}
    IN  IF S = {} THEN [skip |-> FALSE, name |-> d_name]
        ELSE LET m == CHOOSE m \in S : \A k \in S : m <= k
             IN  IF d_name = dir_mappings[m].native_name
                 THEN [skip |-> FALSE, name |-> dir_mappings[m].container_name]
                 ELSE [skip |-> ReaddirSkip(m, fpath, entries), name |-> d_name]

\* ccbox_readdir(path): what the filler receives, each name with the backing
\* entry it was produced from
ccbox_readdir(path, entries) ==
    LET g == get_source_path(path)
    IN  IF g.rc # "OK" THEN [rc |-> g.rc, listing |-> {}]
        ELSE [rc |-> "OK",
              listing |-> {[name |-> to_visible(e.name, g.dest, entries).name, from |-> e.name]
                           : e \in {x \in entries : ~to_visible(x.name, g.dest, entries).skip}}]

----------------------------------------------------------------------------
(* 4.2 Content transform engine *)

\* extract_json_path(buf, len, ti, pathbuf, MAX_PATH_LEN): the normalized bytes
\* and the position after the token
RECURSIVE ExtractLoop(_, _, _)
ExtractLoop(buf, ti, pathbuf) ==
    IF ti <= Len(buf) /\ buf[ti] \notin JsonDelims /\ Len(pathbuf) < MAX_PATH_LEN - 1
    THEN IF buf[ti] = BS
         THEN ExtractLoop(buf,
                          IF ti + 1 <= Len(buf) /\ buf[ti + 1] = BS THEN ti + 2 ELSE ti + 1,
                          Append(pathbuf, "/"))
         ELSE ExtractLoop(buf, ti + 1, Append(pathbuf, buf[ti]))
    ELSE [ti |-> ti, pathbuf |-> pathbuf]

extract_json_path(buf, ti) == ExtractLoop(buf, ti, <<>>)

\* the allocation of apply_dirmap: len + 256 + 8 * (growth of each mapping)
DirmapAlloc(len, to_container) ==
    LET diff(m) ==
            LET c == Len(dir_mappings[m].container_name)
                n == Len(dir_mappings[m].native_name)
            IN  IF to_container THEN (IF c > n THEN c - n ELSE 0)
                                ELSE (IF n > c THEN n - c ELSE 0)
        sum[m \in 0..dir_mapping_count] ==
            IF m = 0 THEN 0 ELSE sum[m - 1] + diff(m) * DIRMAP_MARGIN
    IN  len + DIRMAP_HEADROOM + sum[dir_mapping_count]

DirFind(m, to_container) ==
    IF to_container THEN dir_mappings[m].native_name ELSE dir_mappings[m].container_name

DirRepl(m, to_container) ==
    IF to_container THEN dir_mappings[m].container_name ELSE dir_mappings[m].native_name

\* the byte that must follow a matched directory name
DirmapBoundary == {NUL, "/", BS, DQ, ",", "}", "]"}

\* the first dir mapping whose find-side string stands at `after` and is
\* followed by a boundary byte; 0 when there is none
DirmapMatch(buf, after, to_container) ==
    LET ok(m) ==
            LET find == DirFind(m, to_container)
                nx   == after + Len(find)
                next == IF nx <= Len(buf) THEN buf[nx] ELSE NUL
            IN  HasPrefixAt(buf, after, find) /\ next \in DirmapBoundary
        S == {m \in 1..dir_mapping_count : ok(m)}
    IN  IF S = {} THEN 0 ELSE CHOOSE m \in S : \A k \in S : m <= k

\* the scan of apply_dirmap; "null" is the early `return NULL` on overflow
RECURSIVE DirmapLoop(_, _, _, _, _, _)
DirmapLoop(buf, i, out, any, alloc, to_container) ==
    IF i > Len(buf) THEN [null |-> ~any, out |-> out]
    ELSE
      LET is_sep == buf[i] = "/" \/ (buf[i] = BS /\ i + 1 <= Len(buf) /\ buf[i + 1] = BS)
          sep_len == IF buf[i] = "/" THEN 1 ELSE 2
          m == IF is_sep THEN DirmapMatch(buf, i + sep_len, to_container) ELSE 0
      IN  IF m # 0
          THEN IF Len(out) + sep_len + Len(DirRepl(m, to_container)) >= alloc
               THEN [null |-> TRUE, out |-> <<>>]
               ELSE DirmapLoop(buf, i + sep_len + Len(DirFind(m, to_container)),
                               out \o SubSeq(buf, i, i + sep_len - 1) \o DirRepl(m, to_container),
                               TRUE, alloc, to_container)
          ELSE IF Len(out) >= alloc - 1
               THEN [null |-> TRUE, out |-> <<>>]
               ELSE DirmapLoop(buf, i + 1, Append(out, buf[i]), any, alloc, to_container)

\* apply_dirmap(buf, len, &newlen, to_container): [null, out]
apply_dirmap(buf, to_container) ==
    IF dir_mapping_count = 0 \/ Len(buf) = 0
    THEN [null |-> TRUE, out |-> <<>>]
    ELSE DirmapLoop(buf, 1, <<>>, FALSE, DirmapAlloc(Len(buf), to_container), to_container)

\* the first mapping in [1..mapping_count] satisfying ok; 0 when none
FirstMapping(ok(_)) ==
    LET S == {m \in 1..mapping_count : ok(m)}
    IN  IF S = {} THEN 0 ELSE CHOOSE m \in S : \A k \in S : m <= k

\* Case 1 of transform_to_container_alloc: the drive mapping that rewrites the
\* token at i
TcDriveMatch(buf, i) ==
    IF i + 1 < Len(buf) /\ isalpha(buf[i]) /\ buf[i + 1] = ":"
    THEN LET e == extract_json_path(buf, i + 2)
             ok(m) == /\ mappings[m].drive = tolower(buf[i])
                      /\ ~mappings[m].is_unc /\ ~mappings[m].is_wsl
                      /\ HasPrefixAt(e.pathbuf, 1,
                                     SubSeq(mappings[m].from, 3, Len(mappings[m].from)))
         IN  FirstMapping(ok)
    ELSE 0

\* Case 2: the UNC mapping that rewrites the token at i
TcUncMatch(buf, i) ==
    IF i < Len(buf) /\ buf[i] = BS /\ buf[i + 1] = BS
    THEN LET e == extract_json_path(buf, i)
             ok(m) == mappings[m].is_unc /\ HasPrefixAt(e.pathbuf, 1, mappings[m].from)
         IN  FirstMapping(ok)
    ELSE 0

\* the byte that must follow a matched mount prefix (']' is not among them)
TcWslBoundary == {NUL, "/", DQ, ",", "}"}

\* Case 3: the mount-prefix mapping that rewrites the token at i
TcWslMatch(buf, i) ==
    IF i + 5 < Len(buf) /\ HasPrefixAt(buf, i, <<"/","m","n","t","/">>) /\ isalpha(buf[i + 5])
    THEN LET ok(m) ==
                 LET nx   == i + Len(mappings[m].from)
                     next == IF nx <= Len(buf) THEN buf[nx] ELSE NUL
                 IN  /\ mappings[m].is_wsl
                     /\ HasPrefixAt(buf, i, mappings[m].from)
                     /\ next \in TcWslBoundary
         IN  FirstMapping(ok)
    ELSE 0

\* the end of the remainder copied verbatim after a mount-prefix or container
\* prefix: the first delimiter or whitespace at or after i
RECURSIVE RemainderEnd(_, _)
RemainderEnd(buf, i) ==
    IF i <= Len(buf) /\ buf[i] \notin JsonDelims /\ ~isspace(buf[i])
    THEN RemainderEnd(buf, i + 1)
    ELSE i

\* the main loop of transform_to_container_alloc
RECURSIVE TcLoop(_, _, _, _, _)
TcLoop(buf, i, work, any, alloc) ==
    IF ~(i <= Len(buf) /\ buf[i] # NUL) THEN [overflow |-> FALSE, any |-> any, work |-> work]
    ELSE
      LET md == TcDriveMatch(buf, i)
          mu == IF md = 0 THEN TcUncMatch(buf, i) ELSE 0
          mw == IF md = 0 /\ mu = 0 THEN TcWslMatch(buf, i) ELSE 0
          ovf == [overflow |-> TRUE, any |-> any, work |-> <<>>]
      IN  IF md # 0 \/ mu # 0
          THEN LET m   == IF md # 0 THEN md ELSE mu
                   e   == extract_json_path(buf, IF md # 0 THEN i + 2 ELSE i)
                   skip == IF md # 0 THEN Len(mappings[m].from) - 2 ELSE Len(mappings[m].from)
                   rem == CStr(SubSeq(e.pathbuf, skip + 1, Len(e.pathbuf)))
                   w1  == work \o mappings[m].to
               IN  IF Len(work) + Len(mappings[m].to) >= alloc THEN ovf
                   ELSE IF Len(w1) + Len(rem) >= alloc THEN ovf
                   ELSE TcLoop(buf, e.ti, w1 \o rem, TRUE, alloc)
          ELSE IF mw # 0
          THEN LET i1  == i + Len(mappings[mw].from)
                   i2  == RemainderEnd(buf, i1)
                   w1  == work \o mappings[mw].to
               IN  IF Len(work) + Len(mappings[mw].to) >= alloc THEN ovf
                   ELSE IF i2 > i1 /\ Len(w1) + (i2 - i1) > alloc - 1 THEN ovf
                   ELSE TcLoop(buf, i2, w1 \o SubSeq(buf, i1, i2 - 1), TRUE, alloc)
          ELSE IF Len(work) >= alloc - 1 THEN ovf
               ELSE TcLoop(buf, i + 1, Append(work, buf[i]), any, alloc)

\* a to-container that returns its work buffer whether or not a mapping
\* matched
transform_to_container_alloc_NoShortCircuit(buf) ==
    IF Len(buf) = 0 \/ mapping_count = 0 THEN [null |-> TRUE, out |-> <<>>, leak |-> 0]
    ELSE LET r == TcLoop(buf, 1, <<>>, FALSE, Len(buf) + TRANSFORM_HEADROOM)
         IN  IF r.overflow THEN [null |-> TRUE, out |-> <<>>, leak |-> 0]
             ELSE [null |-> FALSE, out |-> r.work, leak |-> 0]

\* transform_to_container_alloc(buf, len, &newlen): null is the NULL return
\* ("no transform performed"), out the returned buffer, leak the blocks the
\* call malloc'd and neither freed nor returned
transform_to_container_alloc(buf) ==
    IF Len(buf) = 0 \/ mapping_count = 0 THEN [null |-> TRUE, out |-> <<>>, leak |-> 0]
    ELSE LET r == TcLoop(buf, 1, <<>>, FALSE, Len(buf) + TRANSFORM_HEADROOM)
         IN  IF r.overflow \/ ~r.any THEN [null |-> TRUE, out |-> <<>>, leak |-> 0]
             ELSE LET dm == apply_dirmap(r.work, TRUE)
                  IN  IF ~dm.null THEN [null |-> FALSE, out |-> dm.out, leak |-> 0]
                      ELSE [null |-> FALSE, out |-> r.work, leak |-> 0]

\* the byte that must follow a matched container prefix on the write side
ThBoundary == {NUL, "/", DQ, ",", "}", "]"}

\* a match of the container form at i that does not look at the next byte
ThMatch_Unbounded(buf, i) ==
    LET ok(m) == i - 1 + Len(mappings[m].to) <= Len(buf)
                 /\ HasPrefixAt(buf, i, mappings[m].to)
    IN  FirstMapping(ok)

\* a match that prefers the mapping added last
ThMatch_LastMapping(buf, i) ==
    LET ok(m) ==
            LET nx   == i + Len(mappings[m].to)
                next == IF nx <= Len(buf) THEN buf[nx] ELSE NUL
            IN  HasPrefixAt(buf, i, mappings[m].to) /\ next \in ThBoundary
        S == {m \in 1..mapping_count : ok(m)}
    IN  IF S = {} THEN 0 ELSE CHOOSE m \in S : \A k \in S : m >= k

\* the mapping whose container form stands at i, bounded
ThMatch(buf, i) ==
    LET ok(m) ==
            LET nx   == i + Len(mappings[m].to)
                next == IF nx <= Len(buf) THEN buf[nx] ELSE NUL
            IN  HasPrefixAt(buf, i, mappings[m].to) /\ next \in ThBoundary
    IN  FirstMapping(ok)

\* a path re-emitted on the write side: each '/' becomes the JSON pair \\
\* when the host form is a drive or UNC path
RECURSIVE HostSeps(_, _)
HostSeps(s, escape) ==
    IF s = <<>> THEN <<>>
    ELSE (IF Head(s) = "/" /\ escape THEN <<BS, BS>> ELSE <<Head(s)>>)
         \o HostSeps(Tail(s), escape)

\* the main loop of transform_to_host_alloc
RECURSIVE ThLoop(_, _, _, _, _)
ThLoop(buf, i, work, any, alloc) ==
    IF i > Len(buf) THEN [overflow |-> FALSE, any |-> any, work |-> work]
    ELSE
      LET m == ThMatch(buf, i)
          ovf == [overflow |-> TRUE, any |-> any, work |-> <<>>]
      IN  IF m # 0
          THEN LET from   == mappings[m].from
                   escape == (Len(from) >= 2 /\ from[2] = ":")
                             \/ (Len(from) >= 2 /\ from[1] = "/" /\ from[2] = "/")
                   i1     == i + Len(mappings[m].to)
                   i2     == RemainderEnd(buf, i1)
                   emit   == HostSeps(from, escape) \o HostSeps(SubSeq(buf, i1, i2 - 1), escape)
               IN  IF Len(emit) > 0 /\ Len(work) + Len(emit) > alloc - 1 THEN ovf
                   ELSE ThLoop(buf, i2, work \o emit, TRUE, alloc)
          ELSE IF Len(work) >= alloc - 1 THEN ovf
               ELSE ThLoop(buf, i + 1, Append(work, buf[i]), any, alloc)

\* transform_to_host_alloc(buf, len, &newlen)
transform_to_host_alloc(buf) ==
    IF Len(buf) = 0 \/ mapping_count = 0 THEN [null |-> TRUE, out |-> <<>>, leak |-> 0]
    ELSE LET r == ThLoop(buf, 1, <<>>, FALSE, Len(buf) + TRANSFORM_HEADROOM)
         IN  IF r.overflow \/ ~r.any THEN [null |-> TRUE, out |-> <<>>, leak |-> 0]
             ELSE LET dm == apply_dirmap(r.work, FALSE)
                  IN  IF ~dm.null THEN [null |-> FALSE, out |-> dm.out, leak |-> 0]
                      ELSE [null |-> FALSE, out |-> r.work, leak |-> 0]

\* what the callers hold after a transform: `transformed ? transformed : buf`
ToContainer(buf) ==
    LET r == transform_to_container_alloc(buf) IN IF r.null THEN buf ELSE r.out

ToHost(buf) ==
    LET r == transform_to_host_alloc(buf) IN IF r.null THEN buf ELSE r.out

----------------------------------------------------------------------------
(* Transform harness: a caller that reads a buffer through to-container and *)
(* then either writes the result back through to-host or reads it again.   *)

\* the longest input, counted in pieces
MaxPieces == 4

\* the most path segments after a host prefix in a well-formed token
MaxSegs == 2

\* a mapping's host form as it stands in a JSON file: '/' written as \\
\* for drive and UNC mappings, unchanged for mount-prefix mappings
HostForm(m) == HostSeps(m.from, ~m.is_wsl)

TConfigs ==
    { [ maps |-> <<add_mapping(<<"C",":","/","u">>, <<"/","k">>)>>,
        dirs |-> <<DirMap(<<"d">>, <<"N">>)>> ],
      [ maps |-> <<add_mapping(<<BS,BS,"s","/","h">>, <<"/","k">>)>>,
        dirs |-> <<>> ],
      [ maps |-> <<add_mapping(<<"/","m","n","t","/","d","/","w">>, <<"/","k">>)>>,
        dirs |-> <<DirMap(<<"d">>, <<"N">>)>> ] }

\* the pieces inputs are assembled from, for the configuration in force
TPieces ==
    {HostForm(mappings[m]) : m \in 1..mapping_count}
    \cup {mappings[m].to : m \in 1..mapping_count}
    \cup {dir_mappings[m].native_name : m \in 1..dir_mapping_count}
    \cup {<<BS, BS>>, <<"/">>, <<"a">>, <<" ">>, <<DQ>>}

RECURSIVE PieceBufs(_, _)
PieceBufs(pieces, n) ==
    IF n = 0 THEN {<<>>}
    ELSE LET shorter == PieceBufs(pieces, n - 1)
         IN  shorter \cup {b \o q : b \in shorter, q \in pieces}

\* the separator a mapping's host form uses between segments
HostSep(m) == IF m.is_wsl THEN <<"/">> ELSE <<BS, BS>>

\* path segments of a host path: a plain name and a name with a blank in it
HostSegs == {<<"a">>, <<"a", " ", "a">>}

RECURSIVE HostRemainders(_, _)
HostRemainders(m, n) ==
    IF n = 0 THEN {<<>>}
    ELSE LET shorter == HostRemainders(m, n - 1)
         IN  shorter \cup {r \o HostSep(m) \o g : r \in shorter, g \in HostSegs}

\* well-formed host path tokens under the mappings in force: a mapping's host
\* form followed by whole segments, each introduced by the host separator
HostTokens ==
    UNION {{HostForm(mappings[m]) \o r : r \in HostRemainders(mappings[m], MaxSegs)}
           : m \in 1..mapping_count}

\* a JSON string holding one well-formed host path token
WellFormedHostBufs == {<<DQ>> \o tok \o <<DQ>> : tok \in HostTokens}

TInputs == PieceBufs(TPieces, MaxPieces) \cup WellFormedHostBufs

t_vars == <<t_in, t_mid, t_out, t_op>>
d_vars == <<d_entries, d_listing, d_done, r_segs, r_path, r_res, r_from>>
cfg_vars == <<source_dir, mappings, dir_mappings>>
m_vars == <<m_args, m_state>>
i_vars == <<i_env, g_initialized, g_windows_path, g_container_path, g_windows_len,
            g_container_len, real_absent,
            errno, i_call>>
f_vars == <<now, f_dir, f_ino, f_lock, g_neg_cache, g_neg_cache_idx, g_rcache,
            g_rcache_seq, g_scache, s_idx, thr, ops_left, last, h_hist, h_write, h_neg>>

\* no transform has been requested
NoTransforms == t_in = <<>> /\ t_mid = <<>> /\ t_out = <<>> /\ t_op = "none"

\* no directory has been read and no path resolved
NoLookups ==
    /\ d_entries = {} /\ d_listing = {} /\ d_done = FALSE
    /\ r_segs = <<>> /\ r_path = <<>> /\ r_from = <<>>
    /\ r_res = [rc |-> "OK", dest |-> <<>>]

\* no file is mounted and no request thread runs
NoFiles ==
    /\ now = 0 /\ f_dir = <<>> /\ f_ino = <<>> /\ f_lock = <<>>
    /\ g_neg_cache = <<>> /\ g_neg_cache_idx = 0
    /\ g_rcache = <<>> /\ g_rcache_seq = 0 /\ g_scache = <<>> /\ s_idx = 0
    /\ thr = <<>> /\ ops_left = 0 /\ last = <<>>
    /\ h_hist = {} /\ h_write = <<>> /\ h_neg = <<>>

\* a char * that is NULL
NULLP == <<"NULL">>

\* main has parsed its options and handed over to fuse_main
Started == m_args = <<>> /\ m_state = "mounted"

\* the interposition library is loaded and no call has been intercepted
NoCalls ==
    /\ i_env = [win |-> NULLP, cwd |-> NULLP]
    /\ g_initialized = 0 /\ g_windows_path = NULLP /\ g_container_path = NULLP
    /\ g_windows_len = 0 /\ g_container_len = 0
    /\ real_absent = {} /\ errno = "0" /\ i_call = <<>>

InitT ==
    /\ Started /\ NoCalls
    /\ source_dir = <<"/", "s">>
    /\ \E c \in TConfigs : mappings = c.maps /\ dir_mappings = c.dirs
    /\ t_in \in TInputs
    /\ t_mid = <<>> /\ t_out = <<>> /\ t_op = "none"
    /\ NoLookups /\ NoFiles

\* ccbox_read on a cache miss: the file bytes go through to-container
ReadTransform ==
    /\ t_op = "none"
    /\ t_mid' = ToContainer(t_in)
    /\ t_op' = "tc"
    /\ UNCHANGED <<t_in, t_out, cfg_vars, m_vars, i_vars, d_vars, f_vars>>

\* ccbox_write of what was read: the bytes go through to-host
WriteBack ==
    /\ t_op = "tc"
    /\ t_out' = ToHost(t_mid)
    /\ t_op' = "tc_th"
    /\ UNCHANGED <<t_in, t_mid, cfg_vars, m_vars, i_vars, d_vars, f_vars>>

\* a second to-container over the result of the first
ReadAgain ==
    /\ t_op = "tc"
    /\ t_out' = ToContainer(t_mid)
    /\ t_op' = "tc_tc"
    /\ UNCHANGED <<t_in, t_mid, cfg_vars, m_vars, i_vars, d_vars, f_vars>>

NextT == ReadTransform \/ WriteBack \/ ReadAgain

vars == <<cfg_vars, m_vars, i_vars, t_vars, d_vars, f_vars>>

SpecT == InitT /\ [][NextT]_vars

\* Overflow harness: a JSON list of quoted host paths, some of them naming a
\* mapped directory whose container_name is longer than its native_name, is
\* read through to-container and written back.

\* the most paths in the list, and the length of the long container_name
MaxTokens == 4
LongNameLen == 3

LongName == [k \in 1..LongNameLen |-> "d"]

\* one element of the list: the quoted host form of the mapping followed by
\* the segment seg, and a comma
ListToken(seg) ==
    <<DQ>> \o HostForm(mappings[1]) \o <<BS, BS>> \o seg \o <<DQ, ",">>

\* the lists of k paths, each naming the mapped directory or another one
RECURSIVE PathLists(_)
PathLists(k) ==
    IF k = 0 THEN {<<>>}
    ELSE {ListToken(seg) \o l : seg \in {dir_mappings[1].native_name, <<"a">>},
                                l \in PathLists(k - 1)}

InitO ==
    /\ Started /\ NoCalls
    /\ source_dir = <<"/", "s">>
    /\ mappings = <<add_mapping(<<"C",":","/","u">>, <<"/","k">>)>>
    /\ dir_mappings = <<DirMap(LongName, <<"N">>)>>
    /\ \E k \in 1..MaxTokens : t_in \in PathLists(k)
    /\ t_mid = <<>> /\ t_out = <<>> /\ t_op = "none"
    /\ NoLookups /\ NoFiles

SpecO == InitO /\ [][NextT]_vars

----------------------------------------------------------------------------
(* Directory harness: one backing directory is enumerated, listed names are *)
(* looked up again, and request paths are resolved.                        *)

\* the most segments of a resolved request path
MaxDepth == 3

\* the request path of the enumerated directory
DirPath == <<"/", "p">>

DConfigs ==
    { <<DirMap(<<"c">>, <<"n">>)>>,
      <<DirMap(<<"c">>, <<"n">>), DirMap(<<"d">>, <<"m">>)>>,
      <<DirMap(<<"c">>, <<"n">>), DirMap(<<"d">>, <<"n">>)>>,
      <<DirMap(<<"b">>, <<"x">>), DirMap(<<"c">>, <<"b">>)>>,
      <<DirMap(<<"c">>, <<"n">>), DirMap(<<"c">>, <<"m">>)>>,
      <<DirMap(<<"c">>, <<"n","n","n","n">>)>> }

\* the names a backing entry or a path segment may have: every configured
\* name, a name no mapping knows, and a name that starts with a container_name
DNames ==
    {dir_mappings[m].container_name : m \in 1..dir_mapping_count}
    \cup {dir_mappings[m].native_name : m \in 1..dir_mapping_count}
    \cup {<<"x">>, <<"c", "x">>}

\* directories: each name is absent, a directory or a non-directory
DDirs == UNION {{ {[name |-> n, isdir |-> f[n]] : n \in S} : f \in [S -> BOOLEAN] }
                : S \in SUBSET DNames}

RECURSIVE SegLists(_)
SegLists(n) ==
    IF n = 0 THEN {<<>>}
    ELSE LET shorter == SegLists(n - 1)
         IN  shorter \cup {Append(l, g) : l \in shorter, g \in DNames \cup {<<>>}}

\* the absolute path with the given segments: "/" seg "/" seg ...
RECURSIVE JoinPath(_)
JoinPath(segs) ==
    IF segs = <<>> THEN <<>> ELSE <<"/">> \o Head(segs) \o JoinPath(Tail(segs))

InitD ==
    /\ Started /\ NoCalls
    /\ source_dir = <<"/", "s">>
    /\ mappings = <<>>
    /\ dir_mappings \in DConfigs
    /\ d_entries \in DDirs
    /\ d_listing = {} /\ d_done = FALSE
    /\ r_segs = <<>> /\ r_path = <<>> /\ r_from = <<>>
    /\ r_res = [rc |-> "OK", dest |-> <<>>]
    /\ NoTransforms /\ NoFiles

\* read-directory on DirPath
Readdir ==
    /\ ~d_done
    /\ d_listing' = ccbox_readdir(DirPath, d_entries).listing
    /\ d_done' = TRUE
    /\ UNCHANGED <<d_entries, r_segs, r_path, r_res, r_from, cfg_vars, m_vars, i_vars, t_vars, f_vars>>

\* a request (get-attributes, open, ...) on a name read-directory listed
LookupListed ==
    /\ d_done
    /\ \E e \in d_listing :
         /\ r_segs' = <<DirPath[2], e.name>>
         /\ r_path' = DirPath \o <<"/">> \o e.name
         /\ r_res' = get_source_path(DirPath \o <<"/">> \o e.name)
         /\ r_from' = e.from
    /\ UNCHANGED <<d_entries, d_listing, d_done, cfg_vars, m_vars, i_vars, t_vars, f_vars>>

NextD == Readdir \/ LookupListed

SpecD == InitD /\ [][NextD]_vars

----------------------------------------------------------------------------
(* Path-resolution harness: requests on arbitrary absolute paths.          *)

InitR ==
    /\ Started /\ NoCalls
    /\ source_dir = <<"/", "s">>
    /\ mappings = <<>>
    /\ dir_mappings \in DConfigs
    /\ d_entries = {} /\ d_listing = {} /\ d_done = FALSE
    /\ r_segs \in SegLists(MaxDepth) \ {<<>>}
    /\ r_path = <<>> /\ r_from = <<>>
    /\ r_res = [rc |-> "OK", dest |-> <<>>]
    /\ NoTransforms /\ NoFiles

\* a request on the absolute path with segments r_segs
Resolve ==
    /\ r_path = <<>>
    /\ r_path' = JoinPath(r_segs)
    /\ r_res' = get_source_path(JoinPath(r_segs))
    /\ UNCHANGED <<r_segs, r_from, d_entries, d_listing, d_done, cfg_vars, m_vars, i_vars, t_vars, f_vars>>

NextR == Resolve

SpecR == InitR /\ [][NextR]_vars

----------------------------------------------------------------------------
(* 4.3 The filesystem layer: the backing store, the three caches and the    *)
(* handlers.  A handler is cut into steps at the points where another       *)
(* request thread may run between two of its calls; every step is one       *)
(* action.                                                                  *)

\* #define NEG_CACHE_SIZE 64, scaled
NEG_CACHE_SIZE == 1

NEG_CACHE_TTL == 2

\* #define RCACHE_SLOTS 256, scaled
RCACHE_SLOTS == 2

\* #define RCACHE_MAX_SIZE (4 * 1024 * 1024), scaled
RCACHE_MAX_SIZE == 12

QUICK_SCAN_SIZE == 65536

\* #define SCACHE_SLOTS 512, scaled
SCACHE_SLOTS == 2

\* the request threads of the multi-threaded FUSE loop
Threads == {1, 2}

\* the most seconds the monotonic clock advances
MaxNow == 2

\* the most distinct modification times one file goes through
MaxMtime == 1

\* the most requests issued in the cache scenario
MaxOps == 3

\* the most requests issued in the get-attributes scenario
MaxLookups == 3

\* CCBOX_FUSE_EXTENSIONS=j, as parse_extensions stores it
g_extensions == {<<".", "j">>}

Min(a, b) == IF a < b THEN a ELSE b
Max(a, b) == IF a > b THEN a ELSE b

toupper(c) ==
    IF c \in Range(Lower)
    THEN Upper[CHOOSE k \in DOMAIN Lower : Lower[k] = c]
    ELSE c

\* memmem(hay, n, needle, Len(needle)) != NULL
Memmem(hay, n, needle) ==
    \E i \in 1..n : i - 1 + Len(needle) <= n /\ HasPrefixAt(hay, i, needle)

\* strrchr(path, '.'): the suffix from the last '.', or <<>> when there is none
Strrchr(path, c) ==
    LET S == {k \in DOMAIN path : path[k] = c}
    IN  IF S = {} THEN <<>>
        ELSE SubSeq(path, CHOOSE k \in S : \A j \in S : j <= k, Len(path))

LowerStr(s) == [k \in DOMAIN s |-> tolower(s[k])]

needs_transform(path) ==
    IF mapping_count = 0 \/ g_extensions = {} THEN FALSE
    ELSE LET dot == Strrchr(path, ".")
         IN  dot # <<>> /\ \E e \in g_extensions : LowerStr(dot) = LowerStr(e)

\* quick_scan_has_mappings over the bytes pread returns for the file
quick_scan_has_mappings(content) ==
    LET n == Min(Len(content), QUICK_SCAN_SIZE)
    IN  IF n <= 0 THEN FALSE
        ELSE \/ \E m \in 1..mapping_count :
                  \/ /\ mappings[m].drive # "" /\ ~mappings[m].is_unc /\ ~mappings[m].is_wsl
                     /\ \E i \in 1..(n - 1) :
                          /\ content[i] \in {toupper(mappings[m].drive), mappings[m].drive}
                          /\ content[i + 1] = ":"
                  \/ /\ Len(mappings[m].to) > 0 /\ Len(mappings[m].to) <= n
                     /\ Memmem(content, n, mappings[m].to)
                  \/ /\ mappings[m].is_wsl /\ n >= 5
                     /\ Memmem(content, n, <<"/","m","n","t","/">>)
                  \/ /\ mappings[m].is_unc /\ n >= 2
                     /\ Memmem(content, n, <<BS, BS>>)
             \/ \E m \in 1..dir_mapping_count :
                  \/ Memmem(content, n, dir_mappings[m].native_name)
                  \/ Memmem(content, n, dir_mappings[m].container_name)

\* --- backing store -------------------------------------------------------

\* pread(fd, buf, size, off): the bytes of the file from off, at most size
Pread(content, size, off) ==
    IF off >= Len(content) THEN <<>>
    ELSE SubSeq(content, off + 1, Min(Len(content), off + size))

\* the file after pwrite(fd, data, Len(data), off); a gap reads as zero bytes
Pwrite(content, data, off) ==
    [k \in 1..Max(Len(content), off + Len(data)) |->
        IF k > off /\ k <= off + Len(data) THEN data[k - off]
        ELSE IF k <= Len(content) THEN content[k]
        ELSE NUL]

\* the file after ftruncate(fd, n)
Ftruncate(content, n) ==
    [k \in 1..n |-> IF k <= Len(content) THEN content[k] ELSE NUL]

\* the modification times a file may carry after a modifying call: the clock
\* that stamps files may or may not have advanced since the last stamp
MtimeAfter(m) == {m} \cup (IF m < MaxMtime THEN {m + 1} ELSE {})

\* the slice of a result a read returns: `offset >= len ? 0 : min(len - offset, size)`
Slice(data, off, size) ==
    IF off >= Len(data) THEN <<>>
    ELSE SubSeq(data, off + 1, off + Min(Len(data) - off, size))

\* --- NegCache ------------------------------------------------------------

EmptyNeg == [path |-> <<>>, expires |-> 0]

\* a liveness test one second too generous: an entry still counts in the
\* second it expires
neg_cache_live_Inclusive(e, t) == e.expires >= t

\* the liveness test of neg_cache_lookup
neg_cache_live(e, t) == e.expires > t

neg_cache_lookup(fpath) ==
    \E i \in 1..NEG_CACHE_SIZE :
        neg_cache_live(g_neg_cache[i], now) /\ g_neg_cache[i].path = fpath

\* the slot neg_cache_insert writes: g_neg_cache_idx++ % NEG_CACHE_SIZE
NegSlot == (g_neg_cache_idx % NEG_CACHE_SIZE) + 1

neg_cache_insert(fpath) ==
    [g_neg_cache EXCEPT ![NegSlot] =
        [path |-> SubSeq(fpath, 1, Min(Len(fpath), MAX_PATH_LEN - 1)),
         expires |-> now + NEG_CACHE_TTL]]

neg_cache_invalidate(cache, fpath) ==
    [i \in DOMAIN cache |->
        IF cache[i].path = fpath THEN [cache[i] EXCEPT !.expires = 0] ELSE cache[i]]

\* --- ReadCache -----------------------------------------------------------

\* has_data stands for `data != NULL`; data keeps the bytes of a live entry
EmptyRc == [path |-> <<>>, mtime |-> 0, has_data |-> FALSE, data |-> <<>>, seq |-> 0]

\* a lookup that ignores the modification time
rcache_match_AnyMtime(e, fpath, mtime) == e.has_data /\ e.path = fpath

\* the match test of rcache_lookup
rcache_match(e, fpath, mtime) == e.has_data /\ e.mtime = mtime /\ e.path = fpath

\* the slot rcache_lookup returns, 0 for NULL
rcache_lookup(fpath, mtime) ==
    LET S == {i \in 1..RCACHE_SLOTS : rcache_match(g_rcache[i], fpath, mtime)}
    IN  IF S = {} THEN 0 ELSE CHOOSE i \in S : \A k \in S : i <= k

\* the cache after a lookup that returned slot i: `seq = ++g_rcache_seq`
RcacheTouch(cache, i) ==
    IF i = 0 THEN cache ELSE [cache EXCEPT ![i].seq = g_rcache_seq + 1]

RcacheSeqAfter(i) == IF i = 0 THEN g_rcache_seq ELSE g_rcache_seq + 1

\* the LRU scan of rcache_insert from slot i on
RECURSIVE RcacheLru(_, _, _, _)
RcacheLru(cache, i, lru, min_seq) ==
    IF i > RCACHE_SLOTS THEN lru
    ELSE IF ~cache[i].has_data THEN i
    ELSE IF cache[i].seq < min_seq THEN RcacheLru(cache, i + 1, i, cache[i].seq)
    ELSE RcacheLru(cache, i + 1, lru, min_seq)

rcache_insert(cache, seq, fpath, mtime, data) ==
    IF Len(data) > RCACHE_MAX_SIZE THEN [cache |-> cache, seq |-> seq]
    ELSE LET lru == RcacheLru(cache, 2, 1, cache[1].seq)
         IN  [cache |-> [cache EXCEPT ![lru] =
                            [path |-> SubSeq(fpath, 1, Min(Len(fpath), MAX_PATH_LEN - 1)),
                             mtime |-> mtime, has_data |-> TRUE, data |-> data,
                             seq |-> seq + 1]],
              seq |-> seq + 1]

\* free(data); data = NULL for every live entry of the path
rcache_invalidate(cache, fpath) ==
    [i \in DOMAIN cache |->
        IF cache[i].has_data /\ cache[i].path = fpath
        THEN [cache[i] EXCEPT !.has_data = FALSE, !.data = <<>>]
        ELSE cache[i]]

\* --- SkipCache -----------------------------------------------------------

EmptySc == [path |-> <<>>, mtime |-> 0, active |-> FALSE]

scache_lookup(fpath, mtime) ==
    \E i \in 1..SCACHE_SLOTS :
        g_scache[i].active /\ g_scache[i].mtime = mtime /\ g_scache[i].path = fpath

\* a variant of ScacheSlot that always takes the round-robin slot
ScacheSlot_RoundRobin == (s_idx % SCACHE_SLOTS) + 1

\* the slot scache_insert writes: the first inactive one, else round-robin
ScacheSlot ==
    LET S == {i \in 1..SCACHE_SLOTS : ~g_scache[i].active}
    IN  IF S # {} THEN CHOOSE i \in S : \A k \in S : i <= k
        ELSE (s_idx % SCACHE_SLOTS) + 1

ScacheIdxAfter ==
    IF \E i \in 1..SCACHE_SLOTS : ~g_scache[i].active THEN s_idx
    ELSE (s_idx + 1) % SCACHE_SLOTS

scache_insert(fpath, mtime) ==
    [g_scache EXCEPT ![ScacheSlot] =
        [path |-> SubSeq(fpath, 1, Min(Len(fpath), MAX_PATH_LEN - 1)),
         mtime |-> mtime, active |-> TRUE]]

scache_invalidate(cache, fpath) ==
    [i \in DOMAIN cache |->
        IF cache[i].active /\ cache[i].path = fpath
        THEN [cache[i] EXCEPT !.active = FALSE]
        ELSE cache[i]]

\* --- request threads -----------------------------------------------------

\* the write requests issued: a container path at offset 0, plain bytes at
\* offset 0, a container path at a non-zero offset, and plain bytes at the
\* offset where the first request ends
WInputs ==
    << [buf |-> <<"/", "k">>, off |-> 0],
       [buf |-> <<"a">>, off |-> 0],
       [buf |-> <<"/", "k">>, off |-> 1],
       [buf |-> <<"a">>, off |-> 2] >>

\* the calls of ccbox_write that may fail, and "none"
Faults == {"none", "malloc_work", "fstat", "malloc_merged", "pread", "pwrite"}

\* flock(fd, LOCK_EX) by thread t, and flock(fd, LOCK_UN), on the file i
flock_EX(lock, i, t) == [lock EXCEPT ![i] = t]
flock_UN_Noop(lock, i) == lock
flock_UN(lock, i) == [lock EXCEPT ![i] = 0]

\* the offset and size of the read requests issued
ReadOff == 0
ReadSize == 16

\* the size the truncate requests issued cut to
TruncSize == 0

\* a thread outside any request
IdleThread ==
    [pc |-> "idle", path |-> <<>>, to |-> <<>>, ino |-> 0, xform |-> FALSE, keep |-> FALSE,
     st_mtime |-> 0, st_size |-> 0, ce |-> 0, seen |-> EmptyRc, w |-> 0, w_prev |-> 0,
     buf |-> <<>>, alone |-> FALSE,
     w_pre |-> -1, w_post |-> -1, w_quiet |-> FALSE, w_gen |-> 0, stale |-> FALSE,
     lk_now |-> -1, lk_ins |-> -1, lk_lost |-> "none"]

\* the record of the request that returned last
NoLast ==
    [op |-> "none", path |-> <<>>, rc |-> "OK", bytes |-> <<>>, served |-> "-",
     key |-> -1, slot |-> "-", mem |-> "-", alone |-> FALSE, ino |-> 0, to |-> <<>>,
     w_pre |-> -1, w_post |-> -1, quiet |-> FALSE, clean |-> FALSE, stale |-> FALSE,
     lk_now |-> -1, lk_ins |-> -1, lk_lost |-> "none", statted |-> FALSE, st_size |-> 0,
     keep_cache |-> FALSE, direct_io |-> FALSE, fd |-> -1, fh |-> -1, fstat |-> "-",
     before |-> <<>>,
     w |-> 0, prev |-> 0, exit |-> "-"]

InRequest(t) == thr[t].pc \notin {"idle", "open"}

\* thread t enters a request with local state rec; alone records that no
\* other request is in progress, and is withdrawn from the requests in progress
Begin(t, rec) ==
    [u \in Threads |->
        IF u = t THEN [rec EXCEPT !.alone = \A v \in Threads \ {t} : ~InRequest(v)]
        ELSE IF InRequest(u) THEN [thr[u] EXCEPT !.alone = FALSE]
        ELSE thr[u]]

\* a request is handed to the first idle thread, while the callers have
\* requests left and no reply is on its way
Dispatch(t) ==
    /\ last = NoLast
    /\ thr[t].pc = "idle" /\ \A u \in Threads : u < t => thr[u].pc # "idle"
    /\ ops_left > 0

\* thread t moves on inside its request
Step(t, rec) == [thr EXCEPT ![t] = rec]

\* thread t returns from its request and releases its handle
Return(t) == [thr EXCEPT ![t] = IdleThread]

\* a live ReadCache or SkipCache entry keyed by the backing path remains
Remains(rc, sc, fpath) ==
    \/ \E i \in DOMAIN rc : rc[i].has_data /\ rc[i].path = fpath
    \/ \E i \in DOMAIN sc : sc[i].active /\ sc[i].path = fpath

\* the file inode i holds content c stamped m: the backing paths that name
\* inode i are recorded with what they now hold
Holds(dir, i, m, c) ==
    {[path |-> p, mtime |-> m, content |-> c] : p \in {q \in DOMAIN dir : dir[q] = i}}

\* a modifying call on inode i is counted: gen = wgen holds for as long as the
\* file is as its last write left it
Dirty(i) == [h_write EXCEPT ![i].gen = @ + 1]

fs_vars == <<now, f_dir, f_ino, f_lock>>
neg_vars == <<g_neg_cache, g_neg_cache_idx>>
rc_vars == <<g_rcache, g_rcache_seq>>
sc_vars == <<g_scache, s_idx>>
h_vars == <<h_hist, h_write, h_neg>>

\* the transform flag of a handle: the top bit of the 64-bit word, scaled
FH_TRANSFORM_BIT == 65536

\* a variant of FH_FD that does not mask the flag
FH_FD_Unmasked(fh) == fh

\* (fh) & ~FH_TRANSFORM_BIT
FH_FD(fh) == fh % FH_TRANSFORM_BIT

\* !!((fh) & FH_TRANSFORM_BIT)
FH_NEEDS_TRANSFORM(fh) == (fh \div FH_TRANSFORM_BIT) % 2 = 1

\* the descriptors the backing open returns
Fds == {3, FH_TRANSFORM_BIT - 1}

\* fstat on the new descriptor succeeds or fails
FstatOutcomes == {"ok", "fail"}

\* ccbox_open
Open(t, path) ==
    /\ Dispatch(t)
    /\ ops_left' = ops_left - 1
    /\ \E fd \in Fds, st \in FstatOutcomes :
       LET r == get_source_path(path)
           i == IF r.rc = "OK" THEN f_dir[r.dest] ELSE 0
           fh == IF needs_transform(path) THEN fd + FH_TRANSFORM_BIT ELSE fd
           x == FH_NEEDS_TRANSFORM(fh)
           ce == IF i # 0 /\ x /\ st = "ok" THEN rcache_lookup(r.dest, f_ino[i].mtime) ELSE 0
           keep == /\ i # 0 /\ x /\ st = "ok"
                   /\ (ce # 0 \/ scache_lookup(r.dest, f_ino[i].mtime))
       IN  IF r.rc # "OK" \/ i = 0
           THEN /\ thr' = Return(t)
                /\ last' = [NoLast EXCEPT !.op = "open", !.path = path,
                               !.rc = IF r.rc # "OK" THEN r.rc ELSE "ENOENT"]
                /\ UNCHANGED rc_vars
           ELSE /\ thr' = Step(t, [IdleThread EXCEPT !.pc = "open", !.path = path,
                                      !.ino = i, !.xform = x, !.keep = keep])
                /\ g_rcache' = RcacheTouch(g_rcache, ce)
                /\ g_rcache_seq' = RcacheSeqAfter(ce)
                /\ last' = [NoLast EXCEPT !.op = "open", !.path = path, !.ino = i,
                               !.fd = fd, !.fh = fh,
                               !.fstat = IF x THEN st ELSE "-",
                               !.keep_cache = keep, !.direct_io = (x /\ ~keep)]
    /\ UNCHANGED <<cfg_vars, m_vars, i_vars, t_vars, d_vars, fs_vars, neg_vars, sc_vars, h_vars>>

\* ccbox_read, first step: fstat on the handle
ReadStat(t) ==
    /\ last = NoLast /\ thr[t].pc = "open"
    /\ LET me == thr[t]
           f == f_ino[me.ino]
           hw == h_write[me.ino]
       IN  IF ~me.xform
           THEN /\ thr' = Return(t)
                /\ last' = [NoLast EXCEPT !.op = "read", !.path = me.path,
                               !.bytes = Pread(f.content, ReadSize, ReadOff),
                               !.served = "plain"]
           ELSE IF Len(f.content) = 0
           THEN /\ thr' = Return(t)
                /\ last' = [NoLast EXCEPT !.op = "read", !.path = me.path,
                               !.served = "empty"]
           ELSE /\ thr' = Begin(t, [me EXCEPT !.pc = "r_lookup",
                                       !.st_mtime = f.mtime,
                                       !.st_size = Len(f.content),
                                       !.w_pre = IF hw.gen = hw.wgen THEN hw.pre ELSE -1,
                                       !.w_post = IF hw.gen = hw.wgen THEN hw.post ELSE -1,
                                       !.w_quiet = (hw.gen = hw.wgen /\ hw.quiet),
                                       !.w_gen = hw.gen])
                /\ UNCHANGED last
    /\ UNCHANGED <<cfg_vars, m_vars, i_vars, t_vars, d_vars, fs_vars, neg_vars, rc_vars, sc_vars, h_vars, ops_left>>

\* ccbox_read, second step: the SkipCache and ReadCache lookups
ReadLookup(t) ==
    /\ last = NoLast /\ thr[t].pc = "r_lookup"
    /\ LET me == thr[t]
           r == get_source_path(me.path)
           f == f_ino[me.ino]
           ce == IF r.rc = "OK" THEN rcache_lookup(r.dest, me.st_mtime) ELSE 0
           stale == /\ me.w_post > me.w_pre
                    /\ \/ \E i \in 1..RCACHE_SLOTS :
                             /\ g_rcache[i].has_data /\ g_rcache[i].path = r.dest
                             /\ g_rcache[i].mtime = me.w_pre
                       \/ \E i \in 1..SCACHE_SLOTS :
                             /\ g_scache[i].active /\ g_scache[i].path = r.dest
                             /\ g_scache[i].mtime = me.w_pre
       IN  IF r.rc = "OK" /\ scache_lookup(r.dest, me.st_mtime)
           THEN /\ thr' = Return(t)
                /\ last' = [NoLast EXCEPT !.op = "read", !.path = me.path,
                               !.bytes = Pread(f.content, ReadSize, ReadOff),
                               !.served = "scache", !.key = me.st_mtime,
                               !.w_pre = me.w_pre, !.w_post = me.w_post,
                               !.ino = me.ino, !.quiet = me.w_quiet,
                               !.clean = (h_write[me.ino].gen = me.w_gen), !.stale = stale,
                               !.alone = me.alone]
                /\ UNCHANGED rc_vars
           ELSE IF ce # 0
           THEN /\ thr' = Step(t, [me EXCEPT !.pc = "r_copy", !.ce = ce,
                                      !.seen = [g_rcache[ce] EXCEPT !.seq = 0],
                                      !.stale = stale])
                /\ g_rcache' = RcacheTouch(g_rcache, ce)
                /\ g_rcache_seq' = RcacheSeqAfter(ce)
                /\ UNCHANGED last
           ELSE /\ thr' = Step(t, [me EXCEPT !.pc = "r_scan", !.stale = stale])
                /\ UNCHANGED <<rc_vars, last>>
    /\ UNCHANGED <<cfg_vars, m_vars, i_vars, t_vars, d_vars, fs_vars, neg_vars, sc_vars, h_vars, ops_left>>

\* what the copy out of slot ce yields when the slot is no longer the entry the
\* lookup returned: the slot was freed (data == NULL, or the pointer was read
\* before the free), or it holds another insert's entry.  Reading through a
\* freed or replaced pointer is undefined; each outcome the build can give is
\* listed: a fault, the old bytes still in the freed block, the bytes of the
\* entry now in the slot, or whatever else the block holds by then.
CopyOutcomes(cur, seen) ==
    IF [cur EXCEPT !.seq = 0] = seen
    THEN {[slot |-> "live", mem |-> "entry", rc |-> "OK",
           bytes |-> Slice(cur.data, ReadOff, ReadSize)]}
    ELSE LET slot == IF ~cur.has_data THEN "freed"
                     ELSE IF cur.path = seen.path THEN "same" ELSE "other"
         IN  {[slot |-> slot, mem |-> "stale", rc |-> "OK",
               bytes |-> Slice(seen.data, ReadOff, ReadSize)],
              [slot |-> slot, mem |-> "garbage", rc |-> "OK", bytes |-> <<"?">>]}
             \cup (IF cur.has_data
                   THEN {[slot |-> slot, mem |-> "entry", rc |-> "OK",
                          bytes |-> Slice(cur.data, ReadOff, ReadSize)]}
                   ELSE {[slot |-> slot, mem |-> "fault", rc |-> "SIGSEGV",
                          bytes |-> <<>>]})

\* ccbox_read on a ReadCache hit: ce->len and ce->data are read and copied
ReadCopy(t) ==
    /\ last = NoLast /\ thr[t].pc = "r_copy"
    /\ LET me == thr[t]
       IN  \E o \in CopyOutcomes(g_rcache[me.ce], me.seen) :
             /\ thr' = Return(t)
             /\ last' = [NoLast EXCEPT !.op = "read", !.path = me.path,
                            !.rc = o.rc, !.bytes = o.bytes, !.served = "rcache",
                            !.key = me.seen.mtime, !.slot = o.slot, !.mem = o.mem,
                            !.w_pre = me.w_pre, !.w_post = me.w_post,
                            !.ino = me.ino, !.quiet = me.w_quiet,
                               !.clean = (h_write[me.ino].gen = me.w_gen), !.stale = me.stale,
                            !.alone = me.alone]
    /\ UNCHANGED <<cfg_vars, m_vars, i_vars, t_vars, d_vars, fs_vars, neg_vars, rc_vars, sc_vars, h_vars, ops_left>>

\* ccbox_read on a miss: the quick scan; a file without signatures is
\* recorded in the SkipCache and read as it is
ReadScan(t) ==
    /\ last = NoLast /\ thr[t].pc = "r_scan"
    /\ LET me == thr[t]
           r == get_source_path(me.path)
           f == f_ino[me.ino]
       IN  IF ~quick_scan_has_mappings(f.content)
           THEN /\ g_scache' = IF r.rc = "OK" THEN scache_insert(r.dest, me.st_mtime)
                               ELSE g_scache
                /\ s_idx' = IF r.rc = "OK" THEN ScacheIdxAfter ELSE s_idx
                /\ thr' = Return(t)
                /\ last' = [NoLast EXCEPT !.op = "read", !.path = me.path,
                               !.bytes = Pread(f.content, ReadSize, ReadOff),
                               !.served = "scan",
                               !.w_pre = me.w_pre, !.w_post = me.w_post,
                               !.ino = me.ino, !.quiet = me.w_quiet,
                               !.clean = (h_write[me.ino].gen = me.w_gen), !.stale = me.stale,
                               !.alone = me.alone]
           ELSE /\ thr' = Step(t, [me EXCEPT !.pc = "r_full"])
                /\ UNCHANGED <<sc_vars, last>>
    /\ UNCHANGED <<cfg_vars, m_vars, i_vars, t_vars, d_vars, fs_vars, neg_vars, rc_vars, h_vars, ops_left>>

\* ccbox_read on a miss: the whole file is read, transformed and cached
ReadFull(t) ==
    /\ last = NoLast /\ thr[t].pc = "r_full"
    /\ LET me == thr[t]
           r == get_source_path(me.path)
           f == f_ino[me.ino]
           filebuf == Pread(f.content, me.st_size, 0)
       IN  \E result \in {ToContainer(filebuf)} :
           \E ins \in {rcache_insert(g_rcache, g_rcache_seq, r.dest, me.st_mtime, result)} :
           /\ g_rcache' = IF r.rc = "OK" THEN ins.cache ELSE g_rcache
           /\ g_rcache_seq' = IF r.rc = "OK" THEN ins.seq ELSE g_rcache_seq
           /\ thr' = Return(t)
           /\ last' = [NoLast EXCEPT !.op = "read", !.path = me.path,
                          !.bytes = Slice(result, ReadOff, ReadSize),
                          !.served = "fresh",
                          !.w_pre = me.w_pre, !.w_post = me.w_post,
                          !.ino = me.ino, !.quiet = me.w_quiet,
                               !.clean = (h_write[me.ino].gen = me.w_gen), !.stale = me.stale,
                          !.alone = me.alone]
    /\ UNCHANGED <<cfg_vars, m_vars, i_vars, t_vars, d_vars, fs_vars, neg_vars, sc_vars, h_vars, ops_left>>

\* ccbox_write, first step: both caches are invalidated for the path
WriteInval(t, w) ==
    /\ last = NoLast /\ thr[t].pc = "open"
    /\ LET me == thr[t]
           r == get_source_path(me.path)
       IN  /\ g_rcache' = IF r.rc = "OK" THEN rcache_invalidate(g_rcache, r.dest)
                           ELSE g_rcache
           /\ g_scache' = IF r.rc = "OK" THEN scache_invalidate(g_scache, r.dest)
                           ELSE g_scache
           /\ thr' = Begin(t, [me EXCEPT !.pc = "w_io", !.w = w,
                                  !.w_pre = f_ino[me.ino].mtime,
                                  !.w_prev = IF h_write[me.ino].gen = h_write[me.ino].wgen
                                                /\ h_write[me.ino].quiet
                                             THEN h_write[me.ino].w ELSE 0])
    /\ UNCHANGED <<cfg_vars, m_vars, i_vars, t_vars, d_vars, fs_vars, neg_vars, g_rcache_seq, s_idx, h_vars, ops_left, last>>

\* the record of a write that returns, and the note of it kept for the file
WriteReturns(t, me, m2) ==
    /\ thr' = Return(t)
    /\ last' = [NoLast EXCEPT !.op = "write", !.path = me.path,
                   !.alone = me.alone, !.ino = me.ino,
                   !.w_pre = me.w_pre, !.w_post = m2,
                   !.w = me.w, !.prev = me.w_prev, !.exit = "done"]
    /\ h_write' = [h_write EXCEPT ![me.ino] =
                      [pre |-> me.w_pre, post |-> m2, quiet |-> me.alone,
                       gen |-> h_write[me.ino].gen + 1,
                       wgen |-> h_write[me.ino].gen + 1,
                       w |-> me.w]]

\* a write that returns -errno from the exit named: the file is as it was
WriteFails(t, me, rc, exit) ==
    /\ thr' = Return(t)
    /\ last' = [NoLast EXCEPT !.op = "write", !.path = me.path, !.rc = rc,
                   !.alone = me.alone, !.ino = me.ino,
                   !.w = me.w, !.prev = me.w_prev, !.exit = exit]
    /\ UNCHANGED <<f_ino, h_hist, h_write>>

\* the bytes malloc'd memory holds where nothing was stored: n equal bytes of
\* either kind
UninitBytes(n) == {[k \in 1..n |-> b] : b \in {NUL, "?"}}

\* ccbox_write, second step: the transform and the first write to the file.
\* At offset 0 the transformed bytes are written; at another offset the lock
\* is taken and the file is read and overlaid; an untransformed buffer is
\* written where the request says.  fault names the call that fails, if one
\* on the path taken does.
WriteIO(t, fault) ==
    /\ last = NoLast /\ thr[t].pc = "w_io"
    /\ LET me == thr[t]
           W == WInputs[me.w]
           f == f_ino[me.ino]
       IN  \E tr \in {IF me.xform /\ fault # "malloc_work"
                      THEN transform_to_host_alloc(W.buf)
                      ELSE [null |-> TRUE, out |-> <<>>]} :
           IF ~tr.null /\ W.off = 0
           THEN IF fault = "pwrite"
                THEN WriteFails(t, me, "EIO", "pwrite") /\ UNCHANGED f_lock
                ELSE \E m2 \in MtimeAfter(f.mtime) :
                  LET c2 == Pwrite(f.content, tr.out, 0)
                  IN  /\ f_ino' = [f_ino EXCEPT ![me.ino] = [content |-> c2, mtime |-> m2]]
                      /\ h_hist' = h_hist \cup Holds(f_dir, me.ino, m2, c2)
                      /\ h_write' = Dirty(me.ino)
                      /\ thr' = Step(t, [me EXCEPT !.pc = "w_trunc", !.buf = tr.out])
                      /\ UNCHANGED <<f_lock, last>>
           ELSE IF ~tr.null
           THEN /\ f_lock[me.ino] = 0
                /\ IF fault \in {"fstat", "malloc_merged", "pread"}
                   THEN /\ f_lock' = flock_UN(flock_EX(f_lock, me.ino, t), me.ino)
                        /\ WriteFails(t, me,
                                      IF fault = "malloc_merged" THEN "ENOMEM" ELSE "EIO",
                                      fault)
                   ELSE /\ f_lock' = flock_EX(f_lock, me.ino, t)
                        /\ LET filesize == Len(f.content)
                               total == Max(W.off + Len(tr.out), filesize)
                               gapn == Max(W.off - filesize, 0)
                           IN  \E gap \in UninitBytes(gapn) :
                                 thr' = Step(t, [me EXCEPT !.pc = "w_merge",
                                           !.buf = [k \in 1..total |->
                                               IF k > W.off /\ k <= W.off + Len(tr.out)
                                               THEN tr.out[k - W.off]
                                               ELSE IF k <= filesize THEN f.content[k]
                                               ELSE gap[k - filesize]]])
                        /\ UNCHANGED <<f_ino, h_hist, h_write, last>>
           ELSE IF fault = "pwrite"
                THEN WriteFails(t, me, "EIO", "pwrite") /\ UNCHANGED f_lock
                ELSE \E m2 \in MtimeAfter(f.mtime) :
                  LET c2 == Pwrite(f.content, W.buf, W.off)
                  IN  /\ f_ino' = [f_ino EXCEPT ![me.ino] = [content |-> c2, mtime |-> m2]]
                      /\ h_hist' = h_hist \cup Holds(f_dir, me.ino, m2, c2)
                      /\ WriteReturns(t, me, m2)
                      /\ UNCHANGED f_lock
    /\ UNCHANGED <<cfg_vars, m_vars, i_vars, t_vars, d_vars, now, f_dir, neg_vars, rc_vars, sc_vars, h_neg, ops_left>>

\* ccbox_write at offset 0, last step: ftruncate to the transformed length
WriteTrunc(t) ==
    /\ last = NoLast /\ thr[t].pc = "w_trunc"
    /\ LET me == thr[t]
           f == f_ino[me.ino]
       IN  \E m2 \in MtimeAfter(f.mtime) :
             LET c2 == Ftruncate(f.content, Len(me.buf))
             IN  /\ f_ino' = [f_ino EXCEPT ![me.ino] = [content |-> c2, mtime |-> m2]]
                 /\ h_hist' = h_hist \cup Holds(f_dir, me.ino, m2, c2)
                 /\ WriteReturns(t, me, m2)
    /\ UNCHANGED <<cfg_vars, m_vars, i_vars, t_vars, d_vars, now, f_dir, f_lock, neg_vars, rc_vars, sc_vars, h_neg, ops_left>>

\* ccbox_write at a non-zero offset, last step: the merged bytes are written,
\* the file is cut to their length and the lock is released; when pwrite
\* fails the file is left as it is and the lock is released
WriteMerge(t, fault) ==
    /\ last = NoLast /\ thr[t].pc = "w_merge"
    /\ LET me == thr[t]
           f == f_ino[me.ino]
       IN  /\ f_lock' = flock_UN(f_lock, me.ino)
           /\ IF fault = "pwrite"
              THEN WriteFails(t, me, "EIO", "pwrite_merged")
              ELSE \E m2 \in MtimeAfter(f.mtime) :
                     LET c2 == Ftruncate(Pwrite(f.content, me.buf, 0), Len(me.buf))
                     IN  /\ f_ino' = [f_ino EXCEPT ![me.ino] = [content |-> c2, mtime |-> m2]]
                         /\ h_hist' = h_hist \cup Holds(f_dir, me.ino, m2, c2)
                         /\ WriteReturns(t, me, m2)
    /\ UNCHANGED <<cfg_vars, m_vars, i_vars, t_vars, d_vars, now, f_dir, neg_vars, rc_vars, sc_vars, h_neg, ops_left>>

\* a path request that fails in get_source_path returns its error at once
PathFails(t, op, path, r) ==
    /\ thr' = Return(t)
    /\ last' = [NoLast EXCEPT !.op = op, !.path = path, !.rc = r.rc]

\* ccbox_truncate, first step: the ReadCache is invalidated for the path
TruncInval(t, path) ==
    /\ Dispatch(t)
    /\ ops_left' = ops_left - 1
    /\ LET r == get_source_path(path)
       IN  IF r.rc # "OK"
           THEN PathFails(t, "truncate", path, r) /\ UNCHANGED g_rcache
           ELSE /\ g_rcache' = rcache_invalidate(g_rcache, r.dest)
                /\ thr' = Begin(t, [IdleThread EXCEPT !.pc = "t_io", !.path = path])
                /\ UNCHANGED last
    /\ UNCHANGED <<cfg_vars, m_vars, i_vars, t_vars, d_vars, fs_vars, neg_vars, g_rcache_seq, sc_vars, h_vars>>

\* ccbox_truncate, last step: truncate(fpath, size)
TruncIO(t) ==
    /\ last = NoLast /\ thr[t].pc = "t_io"
    /\ LET me == thr[t]
           fpath == get_source_path(me.path).dest
           i == f_dir[fpath]
       IN  IF i = 0
           THEN /\ last' = [NoLast EXCEPT !.op = "truncate", !.path = me.path,
                               !.rc = "ENOENT", !.alone = me.alone]
                /\ UNCHANGED <<f_ino, h_vars>>
           ELSE \E m2 \in MtimeAfter(f_ino[i].mtime) :
                  LET c2 == Ftruncate(f_ino[i].content, TruncSize)
                  IN  /\ f_ino' = [f_ino EXCEPT ![i] = [content |-> c2, mtime |-> m2]]
                      /\ h_hist' = h_hist \cup Holds(f_dir, i, m2, c2)
                      /\ h_write' = Dirty(i)
                      /\ last' = [NoLast EXCEPT !.op = "truncate", !.path = me.path,
                                     !.alone = me.alone]
                      /\ UNCHANGED h_neg
    /\ thr' = Return(t)
    /\ UNCHANGED <<cfg_vars, m_vars, i_vars, t_vars, d_vars, now, f_dir, f_lock, neg_vars, rc_vars, sc_vars, ops_left>>

\* ccbox_unlink, first step: the ReadCache is invalidated for the path
UnlinkInval(t, path) ==
    /\ Dispatch(t)
    /\ ops_left' = ops_left - 1
    /\ LET r == get_source_path(path)
       IN  IF r.rc # "OK"
           THEN PathFails(t, "unlink", path, r) /\ UNCHANGED g_rcache
           ELSE /\ g_rcache' = rcache_invalidate(g_rcache, r.dest)
                /\ thr' = Begin(t, [IdleThread EXCEPT !.pc = "u_io", !.path = path])
                /\ UNCHANGED last
    /\ UNCHANGED <<cfg_vars, m_vars, i_vars, t_vars, d_vars, fs_vars, neg_vars, g_rcache_seq, sc_vars, h_vars>>

\* ccbox_unlink, last step: unlink(fpath)
UnlinkIO(t) ==
    /\ last = NoLast /\ thr[t].pc = "u_io"
    /\ LET me == thr[t]
           fpath == get_source_path(me.path).dest
           i == f_dir[fpath]
       IN  /\ f_dir' = [f_dir EXCEPT ![fpath] = 0]
           /\ h_write' = IF i = 0 THEN h_write ELSE Dirty(i)
           /\ last' = [NoLast EXCEPT !.op = "unlink", !.path = me.path,
                          !.rc = IF i = 0 THEN "ENOENT" ELSE "OK",
                          !.alone = me.alone]
    /\ thr' = Return(t)
    /\ UNCHANGED <<cfg_vars, m_vars, i_vars, t_vars, d_vars, now, f_ino, f_lock, neg_vars, rc_vars, sc_vars, h_hist, h_neg, ops_left>>

\* ccbox_rename, first step: the NegCache is invalidated for the destination,
\* the ReadCache and the SkipCache for both paths
RenameInval(t, from, to) ==
    /\ Dispatch(t)
    /\ ops_left' = ops_left - 1
    /\ LET rf == get_source_path(from)
           rt == get_source_path(to)
       IN  IF rf.rc # "OK" \/ rt.rc # "OK"
           THEN /\ PathFails(t, "rename", from, IF rf.rc # "OK" THEN rf ELSE rt)
                /\ UNCHANGED <<g_neg_cache, g_rcache, g_scache, h_neg>>
           ELSE /\ g_neg_cache' = neg_cache_invalidate(g_neg_cache, rt.dest)
                /\ h_neg' = [h_neg EXCEPT ![rt.dest].lost =
                                IF @ = "kept" THEN "invalidated" ELSE @]
                /\ g_rcache' = rcache_invalidate(rcache_invalidate(g_rcache, rf.dest), rt.dest)
                /\ g_scache' = scache_invalidate(scache_invalidate(g_scache, rf.dest), rt.dest)
                /\ thr' = Begin(t, [IdleThread EXCEPT !.pc = "n_io", !.path = from, !.to = to])
                /\ UNCHANGED last
    /\ UNCHANGED <<cfg_vars, m_vars, i_vars, t_vars, d_vars, fs_vars, g_neg_cache_idx, g_rcache_seq, s_idx, h_hist, h_write>>

\* the calls of the post-rename transform that may fail, and "none"
RenameFaults == {"none", "stat", "open", "malloc", "pread", "pwrite"}

\* ccbox_rename, last step: rename(ff, ft), then the to-host transform of a
\* file that took a transformable name from a name that is not.  A failing
\* stat, open, malloc or pread leaves the file as it is; the results of
\* pwrite and ftruncate are not looked at, and 0 is returned in every case
RenameIO(t, fault) ==
    /\ last = NoLast /\ thr[t].pc = "n_io"
    /\ LET me == thr[t]
           ff == get_source_path(me.path).dest
           ft == get_source_path(me.to).dest
           i == f_dir[ff]
           dir2 == [f_dir EXCEPT ![ft] = i, ![ff] = 0]
           post == /\ mapping_count > 0
                   /\ needs_transform(me.to) /\ ~needs_transform(me.path)
           done == [NoLast EXCEPT !.op = "rename", !.path = me.path,
                       !.to = me.to, !.alone = me.alone, !.ino = i]
       IN  IF i = 0
           THEN /\ last' = [done EXCEPT !.rc = "ENOENT"]
                /\ UNCHANGED <<f_dir, f_ino, h_hist, h_write>>
           ELSE LET f == f_ino[i]
                    sized == Len(f.content) > 0 /\ Len(f.content) <= RCACHE_MAX_SIZE
                    reads == /\ post /\ sized
                             /\ fault \notin {"stat", "open", "malloc", "pread"}
                IN  \E tr \in {IF reads THEN transform_to_host_alloc(f.content)
                                ELSE [null |-> TRUE, out |-> <<>>]} :
                    /\ f_dir' = dir2
                    /\ last' = [done EXCEPT !.before = f.content,
                                            !.exit = IF ~post THEN "none"
                                                     ELSE IF fault = "stat" THEN fault
                                                     ELSE IF ~sized THEN "none"
                                                     ELSE IF ~reads THEN fault
                                                     ELSE IF fault = "pwrite" /\ ~tr.null
                                                     THEN fault
                                                     ELSE "none"]
                    /\ h_write' = IF f_dir[ft] = 0 \/ f_dir[ft] = i
                                  THEN Dirty(i)
                                  ELSE [Dirty(i) EXCEPT ![f_dir[ft]].gen = @ + 1]
                    /\ IF tr.null
                       THEN /\ h_hist' = h_hist \cup Holds(dir2, i, f.mtime, f.content)
                            /\ UNCHANGED f_ino
                       ELSE \E m2 \in MtimeAfter(f.mtime) :
                              LET c2 == IF fault = "pwrite"
                                        THEN Ftruncate(f.content, Len(tr.out))
                                        ELSE Ftruncate(Pwrite(f.content, tr.out, 0), Len(tr.out))
                              IN  /\ f_ino' = [f_ino EXCEPT ![i] = [content |-> c2, mtime |-> m2]]
                                  /\ h_hist' = h_hist \cup Holds(dir2, i, f.mtime, f.content)
                                                      \cup Holds(dir2, i, m2, c2)
    /\ thr' = Return(t)
    /\ UNCHANGED <<cfg_vars, m_vars, i_vars, t_vars, d_vars, now, f_lock, neg_vars, rc_vars, sc_vars, h_neg, ops_left>>

\* ccbox_getattr, first step: the NegCache lookup
GetattrBegin(t, path) ==
    /\ Dispatch(t)
    /\ ops_left' = ops_left - 1
    /\ LET r == get_source_path(path)
       IN  IF r.rc # "OK"
           THEN PathFails(t, "getattr", path, r)
           ELSE IF neg_cache_lookup(r.dest)
           THEN /\ thr' = Return(t)
                /\ last' = [NoLast EXCEPT !.op = "getattr", !.path = path,
                               !.rc = "ENOENT", !.served = "negcache",
                               !.lk_now = now, !.lk_ins = h_neg[r.dest].ins,
                               !.lk_lost = h_neg[r.dest].lost]
           ELSE /\ thr' = Begin(t, [IdleThread EXCEPT !.pc = "g_lstat", !.path = path,
                                       !.lk_now = now, !.lk_ins = h_neg[r.dest].ins,
                                       !.lk_lost = h_neg[r.dest].lost])
                /\ UNCHANGED last
    /\ UNCHANGED <<cfg_vars, m_vars, i_vars, t_vars, d_vars, fs_vars, neg_vars, rc_vars, sc_vars, h_vars>>

\* ccbox_getattr, second step: lstat, and for a transformable regular file
\* that is not empty the ReadCache lookup
GetattrLstat(t) ==
    /\ last = NoLast /\ thr[t].pc = "g_lstat"
    /\ LET me == thr[t]
           fpath == get_source_path(me.path).dest
           i == f_dir[fpath]
       IN  IF i = 0
           THEN /\ thr' = Step(t, [me EXCEPT !.pc = "g_insert"])
                /\ UNCHANGED <<rc_vars, last>>
           ELSE LET f == f_ino[i]
                    ce == IF needs_transform(me.path) /\ Len(f.content) > 0
                          THEN rcache_lookup(fpath, f.mtime) ELSE 0
                IN  IF ce = 0
                    THEN /\ thr' = Return(t)
                         /\ last' = [NoLast EXCEPT !.op = "getattr", !.path = me.path,
                                        !.served = "lstat", !.ino = i,
                                        !.st_size = Len(f.content),
                                        !.statted = TRUE, !.alone = me.alone,
                                        !.lk_now = me.lk_now, !.lk_ins = me.lk_ins,
                                        !.lk_lost = me.lk_lost]
                         /\ UNCHANGED rc_vars
                    ELSE /\ thr' = Step(t, [me EXCEPT !.pc = "g_size", !.ino = i, !.ce = ce,
                                               !.seen = [g_rcache[ce] EXCEPT !.seq = 0]])
                         /\ g_rcache' = RcacheTouch(g_rcache, ce)
                         /\ g_rcache_seq' = RcacheSeqAfter(ce)
                         /\ UNCHANGED last
    /\ UNCHANGED <<cfg_vars, m_vars, i_vars, t_vars, d_vars, fs_vars, neg_vars, sc_vars, h_vars, ops_left>>

\* ccbox_getattr on a ReadCache hit: `stbuf->st_size = ce->len` reads the
\* length the slot holds by then; a slot freed in between keeps the length
\* it had
GetattrSize(t) ==
    /\ last = NoLast /\ thr[t].pc = "g_size"
    /\ LET me == thr[t]
           cur == g_rcache[me.ce]
       IN  /\ thr' = Return(t)
           /\ last' = [NoLast EXCEPT !.op = "getattr", !.path = me.path,
                          !.served = "rcache", !.ino = me.ino,
                          !.st_size = IF cur.has_data THEN Len(cur.data)
                                      ELSE Len(me.seen.data),
                          !.slot = IF [cur EXCEPT !.seq = 0] = me.seen THEN "live"
                                   ELSE IF ~cur.has_data THEN "freed"
                                   ELSE IF cur.path = me.seen.path THEN "same"
                                   ELSE "other",
                          !.statted = TRUE, !.alone = me.alone,
                          !.lk_now = me.lk_now, !.lk_ins = me.lk_ins,
                          !.lk_lost = me.lk_lost]
    /\ UNCHANGED <<cfg_vars, m_vars, i_vars, t_vars, d_vars, fs_vars, neg_vars, rc_vars, sc_vars, h_vars, ops_left>>

\* ccbox_getattr, last step after ENOENT: neg_cache_insert
GetattrInsert(t) ==
    /\ last = NoLast /\ thr[t].pc = "g_insert"
    /\ LET me == thr[t]
           fpath == get_source_path(me.path).dest
       IN  /\ g_neg_cache' = neg_cache_insert(fpath)
           /\ g_neg_cache_idx' = (g_neg_cache_idx + 1) % NEG_CACHE_SIZE
           /\ h_neg' = [p \in DOMAIN h_neg |->
                          IF p = fpath
                          THEN [ins |-> now, slot |-> NegSlot, lost |-> "kept"]
                          ELSE IF h_neg[p].slot = NegSlot /\ h_neg[p].lost = "kept"
                          THEN [h_neg[p] EXCEPT !.lost = "evicted"]
                          ELSE h_neg[p]]
           /\ last' = [NoLast EXCEPT !.op = "getattr", !.path = me.path,
                          !.rc = "ENOENT", !.served = "lstat", !.statted = TRUE,
                          !.lk_now = me.lk_now, !.lk_ins = me.lk_ins,
                          !.lk_lost = me.lk_lost]
    /\ thr' = Return(t)
    /\ UNCHANGED <<cfg_vars, m_vars, i_vars, t_vars, d_vars, fs_vars, rc_vars, sc_vars, h_hist, h_write, ops_left>>

\* ccbox_create, first step: the NegCache is invalidated for the path
CreateInval(t, path) ==
    /\ Dispatch(t)
    /\ ops_left' = ops_left - 1
    /\ LET r == get_source_path(path)
       IN  IF r.rc # "OK"
           THEN PathFails(t, "create", path, r) /\ UNCHANGED <<g_neg_cache, h_neg>>
           ELSE /\ g_neg_cache' = neg_cache_invalidate(g_neg_cache, r.dest)
                /\ h_neg' = [h_neg EXCEPT ![r.dest].lost =
                                IF @ = "kept" THEN "invalidated" ELSE @]
                /\ thr' = Begin(t, [IdleThread EXCEPT !.pc = "c_open", !.path = path])
                /\ UNCHANGED last
    /\ UNCHANGED <<cfg_vars, m_vars, i_vars, t_vars, d_vars, fs_vars, g_neg_cache_idx, rc_vars, sc_vars, h_hist, h_write>>

\* an inode no backing path names
FreeIno(dir) ==
    CHOOSE i \in DOMAIN f_ino : \A p \in DOMAIN dir : dir[p] # i

\* ccbox_create, last step: open(fpath, O_CREAT ...) and the handle's release
CreateOpen(t) ==
    /\ last = NoLast /\ thr[t].pc = "c_open"
    /\ LET me == thr[t]
           fpath == get_source_path(me.path).dest
       IN  IF f_dir[fpath] # 0
           THEN UNCHANGED <<f_dir, f_ino, h_hist>>
           ELSE LET i == FreeIno(f_dir)
                IN  /\ f_dir' = [f_dir EXCEPT ![fpath] = i]
                    /\ f_ino' = [f_ino EXCEPT ![i] = [content |-> <<>>, mtime |-> 0]]
                    /\ h_hist' = h_hist \cup {[path |-> fpath, mtime |-> 0, content |-> <<>>]}
    /\ last' = [NoLast EXCEPT !.op = "create", !.path = thr[t].path]
    /\ thr' = Return(t)
    /\ UNCHANGED <<cfg_vars, m_vars, i_vars, t_vars, d_vars, now, f_lock, neg_vars, rc_vars, sc_vars, h_write, h_neg, ops_left>>

\* the reply of the request that returned reaches its caller
Reply ==
    /\ last # NoLast
    /\ last' = NoLast
    /\ UNCHANGED <<cfg_vars, m_vars, i_vars, t_vars, d_vars, f_dir, f_ino, f_lock, neg_vars, rc_vars, sc_vars, h_vars,
                   thr, ops_left, now>>

\* the monotonic clock reaches its next second
Tick ==
    /\ last = NoLast
    /\ now < MaxNow
    /\ now' = now + 1
    /\ UNCHANGED <<cfg_vars, m_vars, i_vars, t_vars, d_vars, f_dir, f_ino, f_lock, neg_vars, rc_vars, sc_vars, h_vars,
                   thr, ops_left, last>>

\* --- scenarios ------------------------------------------------------------

\* the one path mapping of the scenarios: C:/u is mounted at /k
FsMappings == <<add_mapping(<<"C", ":", "/", "u">>, <<"/", "k">>)>>

\* the files of the cache scenario, both with a transformable extension
FPaths == {<<"/", "a", ".", "j">>, <<"/", "b", ".", "j">>}

\* what the two files hold at the start: a host path, and bytes without a
\* signature
InitContents == << <<"C", ":", BS, BS, "u">>, <<"a">> >>

\* the names of the get-attributes scenario, none with a transformable extension
NPaths == {<<"/", "x">>, <<"/", "y">>, <<"/", "z">>}

Fpath(path) == get_source_path(path).dest

\* the caches as the zeroed static arrays, every thread idle
FsStart(paths, budget) ==
    /\ now = 0
    /\ f_lock = [i \in 1..Cardinality(paths) |-> 0]
    /\ g_neg_cache = [i \in 1..NEG_CACHE_SIZE |-> EmptyNeg]
    /\ g_neg_cache_idx = 0
    /\ g_rcache = [i \in 1..RCACHE_SLOTS |-> EmptyRc]
    /\ g_rcache_seq = 0
    /\ g_scache = [i \in 1..SCACHE_SLOTS |-> EmptySc]
    /\ s_idx = 0
    /\ thr = [t \in Threads |-> IdleThread]
    /\ ops_left = budget
    /\ last = NoLast
    /\ h_write = [i \in 1..Cardinality(paths) |->
                    [pre |-> -1, post |-> -1, quiet |-> FALSE, gen |-> 0, wgen |-> -1,
                     w |-> 0]]
    /\ h_neg = [p \in {Fpath(q) : q \in paths} |->
                  [ins |-> -1, slot |-> 0, lost |-> "none"]]

\* the cache scenario: two transformable files exist and are read, written,
\* truncated, unlinked and renamed by two threads
Init ==
    /\ Started /\ NoCalls
    /\ source_dir = <<"/", "s">>
    /\ mappings = FsMappings
    /\ dir_mappings = <<>>
    /\ NoTransforms /\ NoLookups
    /\ FsStart(FPaths, MaxOps)
    /\ f_dir = [p \in {Fpath(q) : q \in FPaths} |->
                  IF p = Fpath(<<"/", "a", ".", "j">>) THEN 1 ELSE 2]
    /\ f_ino = [i \in 1..2 |-> [content |-> InitContents[i], mtime |-> 0]]
    /\ h_hist = UNION {Holds(f_dir, i, f_ino[i].mtime, f_ino[i].content) : i \in 1..2}

\* a step of a handler; none is taken while a reply is on its way
Handlers ==
    \E t \in Threads :
        \/ \E p \in FPaths : Open(t, p)
        \/ ReadStat(t)
        \/ ReadLookup(t)
        \/ ReadCopy(t)
        \/ ReadScan(t)
        \/ ReadFull(t)
        \/ \E w \in DOMAIN WInputs : WriteInval(t, w)
        \/ WriteIO(t, "none")
        \/ WriteTrunc(t)
        \/ WriteMerge(t, "none")
        \/ \E p \in FPaths : TruncInval(t, p)
        \/ TruncIO(t)
        \/ \E p \in FPaths : UnlinkInval(t, p)
        \/ UnlinkIO(t)
        \/ \E p, q \in FPaths : p # q /\ RenameInval(t, p, q)
        \/ RenameIO(t, "none")

Next == Reply \/ Handlers

Spec == Init /\ [][Next]_vars

\* the file of the read/write scenario
RWPaths == {<<"/", "a", ".", "j">>}

\* a step of ccbox_open, ccbox_read or ccbox_write on the one file
HandlersRW ==
    \E t \in Threads :
        \/ \E p \in RWPaths : Open(t, p)
        \/ ReadStat(t)
        \/ ReadLookup(t)
        \/ ReadCopy(t)
        \/ ReadScan(t)
        \/ ReadFull(t)
        \/ \E w \in DOMAIN WInputs : WriteInval(t, w)
        \/ WriteIO(t, "none")
        \/ WriteTrunc(t)
        \/ WriteMerge(t, "none")

NextRW == Reply \/ HandlersRW

\* the read/write scenario: one transformable file is read and written by
\* two threads, in every interleaving of the handlers' steps
SpecRW == Init /\ [][NextRW]_vars

\* what the file of the write scenario holds at the start: nothing, or a
\* host path
WContents == {<<>>, <<"C", ":", BS, BS, "u">>}

\* the write requests the callers of the write scenario issue in all
MaxWrites == 2

InitW ==
    /\ Started /\ NoCalls
    /\ source_dir = <<"/", "s">>
    /\ mappings = FsMappings
    /\ dir_mappings = <<>>
    /\ NoTransforms /\ NoLookups
    /\ FsStart(RWPaths, MaxWrites)
    /\ f_dir = [p \in {Fpath(q) : q \in RWPaths} |-> 1]
    /\ \E c \in WContents : f_ino = [i \in 1..1 |-> [content |-> c, mtime |-> 0]]
    /\ h_hist = Holds(f_dir, 1, f_ino[1].mtime, f_ino[1].content)

\* a step of ccbox_open or ccbox_write on the one file, any call of
\* ccbox_write failing or none
HandlersW ==
    \E t \in Threads :
        \/ \E p \in RWPaths : Open(t, p)
        \/ \E w \in DOMAIN WInputs : WriteInval(t, w)
        \/ \E fault \in Faults : WriteIO(t, fault)
        \/ WriteTrunc(t)
        \/ \E fault \in {"none", "pwrite"} : WriteMerge(t, fault)

NextW == Reply \/ HandlersW

\* the write scenario: one transformable file is written by two threads, in
\* every interleaving of the handlers' steps and with every call failing
SpecW == InitW /\ [][NextW]_vars

\* the get-attributes scenario: names that do not exist are looked up,
\* created and unlinked by two threads while the clock advances
InitN ==
    /\ Started /\ NoCalls
    /\ source_dir = <<"/", "s">>
    /\ mappings = FsMappings
    /\ dir_mappings = <<>>
    /\ NoTransforms /\ NoLookups
    /\ FsStart(NPaths, MaxLookups)
    /\ f_dir = [p \in {Fpath(q) : q \in NPaths} |-> 0]
    /\ f_ino = [i \in 1..Cardinality(NPaths) |-> [content |-> <<>>, mtime |-> 0]]
    /\ h_hist = {}

HandlersN ==
    \E t \in Threads :
        \/ \E p \in NPaths : GetattrBegin(t, p)
        \/ GetattrLstat(t)
        \/ GetattrInsert(t)
        \/ \E p \in NPaths : CreateInval(t, p)
        \/ CreateOpen(t)
        \/ \E p \in NPaths : UnlinkInval(t, p)
        \/ UnlinkIO(t)

NextN == Reply \/ Tick \/ HandlersN

SpecN == InitN /\ [][NextN]_vars

----------------------------------------------------------------------------
(* Claims about directory names *)

HasEntry(n) == \E e \in d_entries : e.name = n
HasDir(n) == \E e \in d_entries : e.name = n /\ e.isdir

\* mapping m's pair is deduplicated: exactly one listed entry is named
\* container_name, and it is the one produced from the native_name entry
DedupHolds(m) ==
    LET C == dir_mappings[m].container_name
        N == dir_mappings[m].native_name
        named == {l \in d_listing : l.name = C}
    IN  (HasDir(N) /\ HasEntry(C)) =>
            (Cardinality(named) = 1 /\ \A l \in named : l.from = N)

\* no name is used by two dir mappings
NonOverlappingDirs ==
    \A m, k \in 1..dir_mapping_count :
        m # k => {dir_mappings[m].container_name, dir_mappings[m].native_name}
                 \cap {dir_mappings[k].container_name, dir_mappings[k].native_name} = {}

C7_Reversible ==
    r_from # <<>> =>
        /\ r_res.rc = "OK"
        /\ r_res.dest = get_source_path(DirPath).dest \o <<"/">> \o r_from

\* the segment the specification's to-backing produces: the native_name of the
\* first mapping whose container_name is the whole segment, else the segment
TranslateSeg(g) ==
    LET S == {m \in 1..dir_mapping_count : dir_mappings[m].container_name = g}
    IN  IF S = {} THEN g
        ELSE dir_mappings[CHOOSE m \in S : \A k \in S : m <= k].native_name

TranslateSegs(segs) == [k \in DOMAIN segs |-> TranslateSeg(segs[k])]

\* C8: the backing path of an absolute request path is source_dir followed by
\* the path in which every segment that is exactly a container_name is
\* replaced by the native_name of the first such mapping, all other segments
\* verbatim.
C8_ToBacking ==
    (r_path # <<>> /\ r_from = <<>> /\ r_res.rc = "OK") =>
        r_res.dest = source_dir \o JoinPath(TranslateSegs(r_segs))

\* C19: failure model of path resolution.  get_source_path either fails with
\* ENAMETOOLONG or succeeds with source_dir followed by the whole request
\* path, every segment that equals a container_name translated.
C19_FailureModel ==
    (r_path # <<>> /\ r_from = <<>>) =>
        \/ r_res.rc = "ENAMETOOLONG"
        \/ /\ r_res.rc = "OK"
           /\ r_res.dest = source_dir \o JoinPath(TranslateSegs(r_segs))

----------------------------------------------------------------------------
(* Claims about the transforms *)

\* C9: round trip.  A buffer of well-formed host path tokens that match the
\* configured mappings, with \\ pairs as separators, comes back unchanged
\* from to-host(to-container(b)).
C9_RoundTrip ==
    (t_op = "tc_th" /\ t_in \in WellFormedHostBufs
     /\ \A m \in 1..mapping_count : ~mappings[m].is_wsl)
        => t_out = t_in

\* C10: idempotence.  A second to-container over the result of the first
\* changes nothing, for every buffer.
C10_Idempotent ==
    t_op = "tc_tc" => t_out = t_mid

\* the normalized form of host bytes: each \\ pair, and each single \, is '/'
RECURSIVE NormalizeSeps(_)
NormalizeSeps(s) ==
    IF s = <<>> THEN <<>>
    ELSE IF Head(s) = BS
    THEN <<"/">> \o NormalizeSeps(IF Len(s) >= 2 /\ s[2] = BS
                                  THEN SubSeq(s, 3, Len(s)) ELSE Tail(s))
    ELSE <<Head(s)>> \o NormalizeSeps(Tail(s))

\* C11: host shapes.  A quoted token that is a mapping's host form followed
\* by a remainder of whole segments reads, through to-container, as the
\* mapping's `to` followed by the normalized remainder, for the drive, UNC
\* and mount-prefix shapes alike.
C11_HostShapes ==
    t_op = "tc" =>
        \A m \in 1..mapping_count :
            \A r \in HostRemainders(mappings[m], MaxSegs) :
                t_in = <<DQ>> \o HostForm(mappings[m]) \o r \o <<DQ>>
                    => t_mid = <<DQ>> \o mappings[m].to \o NormalizeSeps(r) \o <<DQ>>

\* the mapping signatures of a buffer: the drive-letter pattern of a mapped
\* drive, a mapping's container prefix, the mount prefix, a backslash pair
HasSignature(b) ==
    \E i \in 1..Len(b) :
        \/ /\ i < Len(b) /\ isalpha(b[i]) /\ b[i + 1] = ":"
           /\ \E m \in 1..mapping_count : mappings[m].drive = tolower(b[i])
        \/ \E m \in 1..mapping_count :
               i - 1 + Len(mappings[m].to) <= Len(b) /\ HasPrefixAt(b, i, mappings[m].to)
        \/ i + 4 <= Len(b) /\ HasPrefixAt(b, i, <<"/","m","n","t","/">>)
        \/ i < Len(b) /\ b[i] = BS /\ b[i + 1] = BS

\* C12: identity.  On a buffer without any mapping signature both transforms
\* return NULL ("no change") with nothing left allocated, and the bytes the
\* caller passes on are the buffer itself.
C12_Identity ==
    (t_op # "none" /\ ~HasSignature(t_in)) =>
        /\ transform_to_container_alloc(t_in).null
        /\ transform_to_container_alloc(t_in).leak = 0
        /\ transform_to_host_alloc(t_in).null
        /\ transform_to_host_alloc(t_in).leak = 0
        /\ t_mid = t_in
        /\ (t_op = "tc_th" => t_out = t_in)

\* a buffer free of signatures that names a mapped directory went through
\* to-container and back through to-host
C12_Witness ==
    /\ t_op = "tc_th" /\ ~HasSignature(t_in)
    /\ dir_mapping_count > 0
    /\ HasPrefixAt(t_in, 1, <<"/">> \o dir_mappings[1].native_name)

\* the buffer handed to to-host is a mapping's container prefix followed by a
\* byte that is none of the boundary bytes
PrefixInsideSegment(b) ==
    \E m \in 1..mapping_count :
        /\ Len(b) > Len(mappings[m].to)
        /\ HasPrefixAt(b, 1, mappings[m].to)
        /\ b[Len(mappings[m].to) + 1] \notin ThBoundary

\* a container prefix stands somewhere in b with a boundary byte, or the end
\* of the buffer, after it
BoundedPrefixIn(b) == \E i \in 1..Len(b) : ThMatch(b, i) # 0

----------------------------------------------------------------------------
(* Claims about the caches *)

\* what a read of the whole file is to return: to-container of its content
Expected(content) == Slice(ToContainer(content), ReadOff, ReadSize)

\* C1: cache coherence.  A read that starts after a write moved the file's
\* mtime from t1 to t2 > t1 (w_pre to w_post), with no later modification, is
\* not served from a ReadCache or SkipCache entry keyed by t1, whatever else
\* runs meanwhile.  Its result is to-container of the content the file has at
\* t2 whenever it is computed from the file, and also when it is served from
\* a cache if the operations form a sequence: no other request ran during
\* the write or during the read.
C1_Coherence ==
    (last.op = "read" /\ last.rc = "OK" /\ last.w_post > last.w_pre) =>
        /\ last.served \in {"rcache", "scache"} => last.key # last.w_pre
        /\ (last.clean /\ last.served \in {"fresh", "scan"})
               => last.bytes = Expected(f_ino[last.ino].content)
        /\ (last.clean /\ last.quiet /\ last.alone)
               => last.bytes = Expected(f_ino[last.ino].content)

\* a read after a write that moved the mtime found an entry keyed by the old
\* mtime still live, and computed its result from the file
C1_Witness ==
    /\ last.op = "read" /\ last.w_post > last.w_pre
    /\ last.stale /\ last.clean /\ last.served = "fresh"
    /\ last.bytes = Expected(f_ino[last.ino].content)

\* C2: invalidation.  When a write, truncate, unlink or rename returns, with
\* no other request in progress since it began, no live ReadCache entry and
\* no live SkipCache entry is keyed by the backing path it was given (for
\* rename: by either of the two).
C2_Invalidated ==
    (last.op \in {"write", "truncate", "unlink", "rename"} /\ last.rc = "OK"
     /\ last.alone) =>
        /\ ~Remains(g_rcache, g_scache, Fpath(last.path))
        /\ last.op = "rename" => ~Remains(g_rcache, g_scache, Fpath(last.to))

\* C3: cache entries are consistent.  Every live ReadCache entry holds
\* to-container of a content its backing path held under the mtime it is
\* keyed by, and every live SkipCache entry is keyed by an mtime under which
\* its backing path held a content the quick scan finds no signature in.
C3_EntriesConsistent ==
    /\ \A i \in DOMAIN g_rcache :
         g_rcache[i].has_data =>
            \E h \in h_hist : /\ h.path = g_rcache[i].path
                              /\ h.mtime = g_rcache[i].mtime
                              /\ g_rcache[i].data = ToContainer(h.content)
    /\ \A i \in DOMAIN g_scache :
         g_scache[i].active =>
            \E h \in h_hist : /\ h.path = g_scache[i].path
                              /\ h.mtime = g_scache[i].mtime
                              /\ ~quick_scan_has_mappings(h.content)

\* C4: benign races.  A read served from a ReadCache slot returns the bytes
\* of a complete entry of the requested file: the slot was not freed and not
\* given to another file between the lookup and the copy, and the copy did
\* not fault or read a block that was no longer the entry's.
C4_BenignRace ==
    (last.op = "read" /\ last.served = "rcache") =>
        /\ last.rc = "OK"
        /\ last.slot \in {"live", "same"}
        /\ last.mem = "entry"

\* the second get-attributes fell inside the TTL window of the first
InWindow == last.lk_now < last.lk_ins + NEG_CACHE_TTL

PassA_tc == TcLoop(t_in, 1, <<>>, FALSE, Len(t_in) + TRANSFORM_HEADROOM)

\* Pass B of to-container over buf with an allocation nothing can exceed
PassB_tc_Whole(buf) ==
    DirmapLoop(buf, 1, <<>>, FALSE, Len(buf) * (LongNameLen + 2) + 2, TRUE)

\* C18: overflow contract.  What to-container hands back is either the
\* original bytes or the buffer with Pass A and Pass B both applied to all of
\* it; it is never the output of Pass A alone while Pass B has names to
\* rewrite.
C18_Overflow ==
    t_op = "tc" =>
        \E a \in {PassA_tc} :
            \/ t_mid = t_in
            \/ /\ ~a.overflow /\ a.any
               /\ \E b \in {PassB_tc_Whole(a.work)} :
                      t_mid = IF b.null THEN a.work ELSE b.out

(***************************************************************************)
(* Claims about writes                                                     *)
(***************************************************************************)

\* the request that returned is the second half of a buffer whose first half
\* was written at offset 0 by the write before it, with no other request
\* running during either and nothing done to the file in between
SplitWrite ==
    /\ last.op = "write" /\ last.rc = "OK" /\ last.alone /\ last.prev # 0
    /\ WInputs[last.prev].off = 0
    /\ WInputs[last.w].off = Len(WInputs[last.prev].buf)

\* C14: streaming-safe writes.  After write(b1, 0) and write(b2, len(b1)) the
\* file holds to-host(b1 + b2), as after the single write of b1 + b2 at 0.
C14_Streaming ==
    SplitWrite =>
        \E T \in {ToHost(WInputs[last.prev].buf \o WInputs[last.w].buf)} :
            /\ Len(f_ino[last.ino].content) >= Len(T)
            /\ SubSeq(f_ino[last.ino].content, 1, Len(T)) = T


\* the file the claim describes after a write of T at offset off over old:
\* old up to off, zero bytes where old ends before off, T, and what old holds
\* beyond T
Merged(old, T, off) ==
    [k \in 1..Max(off + Len(T), Len(old)) |->
        IF k > off /\ k <= off + Len(T) THEN T[k - off]
        ELSE IF k <= Len(old) THEN old[k]
        ELSE NUL]

\* C15: merge on a write at a non-zero offset.  When the write changes its
\* bytes to T and no other request runs meanwhile, the file afterwards is the
\* old content with T laid over it at the offset, zero bytes filling the
\* stretch between the old end of file and the offset.
C15_Merge ==
    [][\A t \in Threads :
          (thr[t].pc = "w_merge" /\ thr[t].alone /\ thr'[t].pc = "idle" /\ last'.rc = "OK")
              => f_ino'[thr[t].ino].content
                     = Merged(f_ino[thr[t].ino].content,
                              ToHost(WInputs[thr[t].w].buf), WInputs[thr[t].w].off)]_vars


\* C16: read-modify-write atomicity.  When a merging write stores its buffer,
\* every byte it stores outside the stretch it overlays is the byte the file
\* holds at that moment, and it cuts nothing off the file: it puts back no
\* data read before another write landed.
C16_Atomic ==
    [][\A t \in Threads :
          (thr[t].pc = "w_merge" /\ thr'[t].pc = "idle" /\ last'.rc = "OK")
              => \E W \in {WInputs[thr[t].w]} :
                 \E T \in {ToHost(W.buf)} :
                 \E old \in {f_ino[thr[t].ino].content} :
                 \E new \in {f_ino'[thr[t].ino].content} :
                    /\ Len(new) >= Len(old)
                    /\ \A k \in 1..Len(old) :
                          (k <= W.off \/ k > W.off + Len(T)) => new[k] = old[k]]_vars


\* C17: transform failures do not surface.  No write returns ENOMEM: a
\* write whose transform buffer or merge buffer cannot be allocated goes on
\* with the untransformed bytes.
C17_NoTransformError ==
    last.op = "write" => last.rc # "ENOMEM"


\* C20: locks released.  The exclusive lock on a file is held only by a
\* thread that is inside the merge of a write to that file: a request that has
\* returned, by whichever exit, holds none.
C20_LocksReleased ==
    /\ \A i \in DOMAIN f_lock :
           f_lock[i] # 0 => (thr[f_lock[i]].pc = "w_merge" /\ thr[f_lock[i]].ino = i)
    /\ (last.op = "write" /\ \A t \in Threads : thr[t].pc # "w_merge")
           => f_lock[last.ino] = 0

\* a write that held the lock over its merge returned the error of its pwrite,
\* and the lock is free
C20_Witness ==
    /\ last.op = "write" /\ last.exit = "pwrite_merged" /\ last.rc = "EIO"
    /\ f_lock[last.ino] = 0


----------------------------------------------------------------------------
(* Interposition library (fakepath.c): the wrappers translate the path     *)
(* arguments of the calls a process makes and hand them to the real entry  *)
(* points.                                                                 *)

\* the wrappers with one path argument
OnePathCalls ==
    {"open", "open64", "openat", "openat64", "fopen", "fopen64", "freopen",
     "freopen64", "stat", "lstat", "access", "faccessat", "chdir", "readlink",
     "readlinkat", "mkdir", "mkdirat", "rmdir", "unlink", "unlinkat", "chmod",
     "fchmodat", "chown", "lchown", "fchownat", "opendir", "execve", "execvp",
     "execvpe", "scandir", "truncate", "utimensat", "creat", "creat64",
     "realpath"}

\* the wrappers with two path arguments
TwoPathCalls == {"rename", "renameat", "symlink", "symlinkat", "link", "linkat"}

\* the wrappers that test their real entry point before using it
GuardedCalls == {"renameat2", "statx", "__xstat", "__lxstat"}

\* the length the library keeps for a prefix: strlen of the stored string,
\* and the 0 of the static initialiser while there is none
strlen(s) == IF s = NULLP THEN 0 ELSE Len(s)

\* s without its last byte when that byte is one of seps
StripOne(s, seps) ==
    IF Len(s) > 0 /\ s[Len(s)] \in seps THEN SubSeq(s, 1, Len(s) - 1) ELSE s

\* the two prefixes init_path_mapping() stores in the environment e
InitPrefixes(e) ==
    IF e.win = NULLP \/ e.win = <<>> \/ e.cwd = NULLP
    THEN [win |-> NULLP, cont |-> NULLP]
    ELSE [win  |-> StripOne(e.win, {"/", BS}),
          cont |-> StripOne(e.cwd, {"/"})]

\* an initialisation that is tried again as long as it has stored no prefix
init_path_mapping_Retry ==
    IF g_initialized = 1 /\ g_windows_path # NULLP
    THEN [win |-> g_windows_path, cont |-> g_container_path]
    ELSE InitPrefixes(i_env)

\* the two prefixes after init_path_mapping() returned
init_path_mapping ==
    IF g_initialized = 1
    THEN [win |-> g_windows_path, cont |-> g_container_path]
    ELSE InitPrefixes(i_env)

\* strncasecmp(a, b, n) == 0 for a C string b of length n
strncasecmp(a, b, n) ==
    /\ Len(a) >= n
    /\ LowerStr(SubSeq(a, 1, n)) = LowerStr(b)

\* the variant that folds the case of the first byte only
strncasecmp_FirstOnly(a, b, n) ==
    /\ Len(a) >= n
    /\ n > 0 => tolower(a[1]) = tolower(b[1])
    /\ SubSeq(a, 2, n) = SubSeq(b, 2, n)

\* windows_to_container(path) with the prefixes g; oom: malloc returns NULL
windows_to_container(g, path, oom) ==
    IF g.cont = NULLP \/ g.win = NULLP \/ path = NULLP THEN NULLP
    ELSE IF ~strncasecmp(path, g.win, Len(g.win)) THEN NULLP
    ELSE IF Len(path) > Len(g.win) /\ path[Len(g.win) + 1] \notin {"/", BS} THEN NULLP
    ELSE IF oom THEN NULLP
    ELSE g.cont \o BackslashToSlash(SubSeq(path, Len(g.win) + 1, Len(path)))

translate_input(g, path, oom) ==
    IF path = NULLP THEN path
    ELSE LET translated == windows_to_container(g, path, oom)
         IN  IF translated # NULLP THEN translated ELSE path

\* the call went through to the real entry point, whose result the wrapper
\* returns ("result") with the errno the real entry point left
CallsThrough(fn, args, oom) ==
    \E g \in {init_path_mapping} :
        /\ g_initialized' = 1
        /\ g_windows_path' = g.win
        /\ g_container_path' = g.cont
        /\ g_windows_len' = strlen(g.win)
        /\ g_container_len' = strlen(g.cont)
        /\ errno' = errno
        /\ i_call' = [fn |-> fn, args |-> args, called |-> TRUE,
                      real |-> [k \in DOMAIN args |-> translate_input(g, args[k], k \in oom)],
                      ret |-> "result", oom |-> oom]
        /\ UNCHANGED <<i_env, real_absent>>

\* the wrapper of a guarded call found its real entry point absent
NotCalled(fn, args, setsErrno) ==
    \E g \in {init_path_mapping} :
        /\ g_initialized' = 1
        /\ g_windows_path' = g.win
        /\ g_container_path' = g.cont
        /\ g_windows_len' = strlen(g.win)
        /\ g_container_len' = strlen(g.cont)
        /\ errno' = IF setsErrno THEN "ENOSYS" ELSE errno
        /\ i_call' = [fn |-> fn, args |-> args, called |-> FALSE,
                      real |-> <<>>, ret |-> "-1", oom |-> {}]
        /\ UNCHANGED <<i_env, real_absent>>

\* the paths the callers pass
IPaths ==
    { NULLP, <<>>,
      <<"D", ":", "/", "p">>,
      <<"D", ":", "/", "p", "/", "f">>,
      <<"D", ":", "/", "p", BS, "f">>,
      <<"d", ":", "/", "p", "/", "f">>,
      <<"D", ":", "/", "P", "/", "f">>,
      <<"D", ":", "/", "p", "x">>,
      <<"/", "x">> }

\* the pairs of paths the callers of the two-path wrappers draw from
IPaths2 ==
    { NULLP,
      <<"D", ":", "/", "p", BS, "f">>,
      <<"D", ":", "/", "P", "/", "f">>,
      <<"D", ":", "/", "p", "x">>,
      <<"/", "x">> }

\* the values CCBOX_WIN_ORIGINAL_PATH and the working directory may have
IEnvs ==
    [win : {NULLP, <<>>, <<"D", ":", "/", "p">>, <<"D", ":", "/", "p", "/">>,
            <<"D", ":", "/", "p", BS>>},
     cwd : {NULLP, <<"/", "w">>, <<"/", "w", "/">>}]

\* the library is loaded (fakepath_init): the real entry points are looked
\* up, and the prefixes are either not initialised yet or were initialised by
\* an earlier call, in the environment of that time
InitI ==
    /\ source_dir = <<>> /\ mappings = <<>> /\ dir_mappings = <<>>
    /\ Started /\ NoTransforms /\ NoLookups /\ NoFiles
    /\ i_env \in IEnvs
    /\ \/ g_initialized = 0 /\ g_windows_path = NULLP /\ g_container_path = NULLP
       \/ /\ g_initialized = 1
          /\ \E e \in IEnvs :
                 /\ g_windows_path = InitPrefixes(e).win
                 /\ g_container_path = InitPrefixes(e).cont
    /\ g_windows_len = strlen(g_windows_path)
    /\ g_container_len = strlen(g_container_path)
    /\ real_absent \in SUBSET GuardedCalls
    /\ errno = "0"
    /\ i_call = <<>>

i_rest == <<cfg_vars, m_vars, t_vars, d_vars, f_vars>>

\* open, stat, unlink, ...: one translated argument
InterceptOne ==
    /\ i_call = <<>>
    /\ \E fn \in OnePathCalls, path \in IPaths, oom \in SUBSET {1} :
           /\ CallsThrough(fn, <<path>>, oom)
           /\ UNCHANGED i_rest

\* rename, renameat, symlink, symlinkat, link, linkat: two translated arguments
InterceptTwo ==
    /\ i_call = <<>>
    /\ \E fn \in TwoPathCalls, a \in IPaths2, b \in IPaths2, oom \in SUBSET {1, 2} :
           /\ CallsThrough(fn, <<a, b>>, oom)
           /\ UNCHANGED i_rest

renameat2 ==
    /\ i_call = <<>>
    /\ \E a \in IPaths2, b \in IPaths2 :
           /\ IF "renameat2" \in real_absent
              THEN NotCalled("renameat2", <<a, b>>, TRUE)
              ELSE CallsThrough("renameat2", <<a, b>>, {})
           /\ UNCHANGED i_rest

statx ==
    /\ i_call = <<>>
    /\ \E path \in IPaths :
           /\ IF "statx" \in real_absent
              THEN NotCalled("statx", <<path>>, TRUE)
              ELSE CallsThrough("statx", <<path>>, {})
           /\ UNCHANGED i_rest

xstat ==
    /\ i_call = <<>>
    /\ \E path \in IPaths :
           /\ IF "__xstat" \in real_absent
              THEN NotCalled("__xstat", <<path>>, FALSE)
              ELSE CallsThrough("__xstat", <<path>>, {})
           /\ UNCHANGED i_rest

lxstat ==
    /\ i_call = <<>>
    /\ \E path \in IPaths :
           /\ IF "__lxstat" \in real_absent
              THEN NotCalled("__lxstat", <<path>>, FALSE)
              ELSE CallsThrough("__lxstat", <<path>>, {})
           /\ UNCHANGED i_rest

NextI == InterceptOne \/ InterceptTwo \/ renameat2 \/ statx \/ xstat \/ lxstat

SpecI == InitI /\ [][NextI]_vars

\* an argument of the last call, and what the real entry point received for it
Translated(k) == i_call.real[k] # i_call.args[k]

\* path begins with the host prefix w, case-sensitively but for the case of
\* the first byte, and the prefix ends at a separator or at the end of path
BeginsWithPrefix(path, w) ==
    /\ path # NULLP /\ w # NULLP
    /\ strncasecmp_FirstOnly(path, w, Len(w))
    /\ (Len(path) = Len(w) \/ path[Len(w) + 1] \in {"/", BS})

----------------------------------------------------------------------------
(* Claims about the interposition library *)

\* C21: the prefix match folds the case of the first byte of the host prefix
\* only.  An argument whose leading bytes differ from the host prefix in any
\* byte after the first, be it only in case, reaches the real entry point
\* untranslated.
C21_CaseOfFirstByteOnly ==
    (i_call # <<>> /\ i_call.called) =>
        \A k \in DOMAIN i_call.args :
            ( /\ g_windows_path # NULLP /\ g_container_path # NULLP
              /\ i_call.args[k] # NULLP
              /\ ~strncasecmp_FirstOnly(i_call.args[k], g_windows_path,
                                        Len(g_windows_path)) )
            => ~Translated(k)


\* C22: input translation.  Each path argument of an intercepted call, both
\* arguments of a two-path call independently, reaches the real entry point
\* as the container prefix followed by its remainder with every backslash
\* turned into a slash when it begins with the host prefix followed by a
\* separator or by its end, and as the caller passed it otherwise (a NULL
\* argument and an unconfigured prefix included).
C22_InputTranslation ==
    (i_call # <<>> /\ i_call.called) =>
        \A k \in DOMAIN i_call.args :
            i_call.real[k] =
                IF g_container_path # NULLP
                   /\ BeginsWithPrefix(i_call.args[k], g_windows_path)
                THEN g_container_path
                       \o BackslashToSlash(SubSeq(i_call.args[k], Len(g_windows_path) + 1,
                                                  Len(i_call.args[k])))
                ELSE i_call.args[k]


\* C23: absent entry points.  A guarded wrapper (statx, renameat2, __xstat,
\* __lxstat) whose real entry point was not resolved returns -1 with errno
\* ENOSYS and calls nothing.
C23_AbsentEntryPoint ==
    (i_call # <<>> /\ i_call.fn \in GuardedCalls /\ i_call.fn \in real_absent) =>
        /\ ~i_call.called
        /\ i_call.ret = "-1"
        /\ errno = "ENOSYS"

----------------------------------------------------------------------------
(* Startup: main parses its options into the configuration and hands over  *)
(* to fuse_main.                                                           *)

MAX_MAPPINGS == 32
MAX_DIR_MAPPINGS == 32

\* strchr(s + (i-1), c): the index of the first c at or after i, 0 when none
Strchr(s, i, c) ==
    LET S == {k \in i..Len(s) : s[k] = c}
    IN  IF S = {} THEN 0 ELSE CHOOSE k \in S : \A j \in S : k <= j

\* the tokens strtok_r(s, ";") returns one after the other: empty ones are
\* skipped
RECURSIVE Strtok(_)
Strtok(s) ==
    IF s = <<>> THEN <<>>
    ELSE LET k == Strchr(s, 1, ";")
         IN  IF k = 0 THEN <<s>>
             ELSE (IF k > 1 THEN <<SubSeq(s, 1, k - 1)>> ELSE <<>>)
                    \o Strtok(SubSeq(s, k + 1, Len(s)))

\* the separator parse_pathmap finds in an entry, after a drive letter; 0
\* when the entry has none
PathmapSep(mapping) ==
    Strchr(mapping, IF Len(mapping) >= 2 /\ mapping[2] = ":" THEN 3 ELSE 1, ":")

\* the while loop of parse_pathmap; acc is mappings[0 .. mapping_count-1]
RECURSIVE PathmapLoop(_, _)
PathmapLoop(tokens, acc) ==
    IF tokens = <<>> THEN acc
    ELSE LET mapping == Head(tokens)
             sep == PathmapSep(mapping)
         IN  PathmapLoop(Tail(tokens),
                 IF sep # 0 /\ Len(acc) < MAX_MAPPINGS
                 THEN Append(acc, add_mapping(SubSeq(mapping, 1, sep - 1),
                                              SubSeq(mapping, sep + 1, Len(mapping))))
                 ELSE acc)

parse_pathmap(pathmap) ==
    IF pathmap = NULLP \/ pathmap = <<>> THEN <<>>
    ELSE PathmapLoop(Strtok(pathmap), <<>>)

\* the while loop of parse_dirmap; acc is dir_mappings[0 .. dir_mapping_count-1]
RECURSIVE DirmapEntries(_, _)
DirmapEntries(tokens, acc) ==
    IF tokens = <<>> \/ Len(acc) >= MAX_DIR_MAPPINGS THEN acc
    ELSE LET entry == Head(tokens)
             sep == Strchr(entry, 1, ":")
         IN  DirmapEntries(Tail(tokens),
                 IF sep # 0
                 THEN Append(acc, DirMap(SubSeq(entry, 1, sep - 1),
                                         SubSeq(entry, sep + 1, Len(entry))))
                 ELSE acc)

parse_dirmap(dirmap) ==
    IF dirmap = NULLP \/ dirmap = <<>> THEN <<>>
    ELSE DirmapEntries(Strtok(dirmap), <<>>)

\* the option values main is started with: source=, and pathmap= / dirmap=
\* or the environment variables that stand in for them (NULLP: neither given)
MArgs ==
    [ source : {NULLP, <<"/", "s">>, <<"/", "s", "/">>},
      pathmap :
    { NULLP, <<>>,
      <<"C", ":", "/", "u", ":", "/", "k">>,
      <<"C", ":", "/", "u">>,
      <<"/", "h", ":", "/", "k", ";", "D", ":", "/", "v">>,
      <<";", "C", ":", BS, "u", BS, ":", "/", "k", ";", ";", "/", "h", "/", "k">> },
      dirmap :
    { NULLP,
      <<"a", ":", "N">>,
      <<"a", "N">>,
      <<"a", ":", "N", ";", "b">> } ]

InitM ==
    /\ m_args \in MArgs
    /\ m_state = "start"
    /\ source_dir = NULLP /\ mappings = <<>> /\ dir_mappings = <<>>
    /\ NoTransforms /\ NoLookups /\ NoFiles /\ NoCalls

main ==
    /\ m_state = "start"
    /\ IF m_args.source = NULLP
       THEN /\ m_state' = "exit1"
            /\ UNCHANGED cfg_vars
       ELSE /\ source_dir' = StripTrailingSlashes(m_args.source)
            /\ mappings' = parse_pathmap(m_args.pathmap)
            /\ dir_mappings' = parse_dirmap(m_args.dirmap)
            /\ m_state' = "mounted"
    /\ UNCHANGED <<m_args, i_vars, t_vars, d_vars, f_vars>>

NextM == main

SpecM == InitM /\ [][NextM]_vars

\* an entry of a mapping list is well formed when its separator is found
WellFormedPathmap(pathmap) ==
    pathmap # NULLP => \A k \in DOMAIN Strtok(pathmap) : PathmapSep(Strtok(pathmap)[k]) # 0

WellFormedDirmap(dirmap) ==
    dirmap # NULLP => \A k \in DOMAIN Strtok(dirmap) : Strchr(Strtok(dirmap)[k], 1, ":") # 0

\* C24: configuration errors are fatal at startup.  The process reaches the
\* mounted state only with a source option and with every path-mapping and
\* directory-mapping entry well formed; no entry is dropped on the way.
C24_ConfigErrorsFatal ==
    (m_args # <<>> /\ m_state = "mounted") =>
        /\ m_args.source # NULLP
        /\ WellFormedPathmap(m_args.pathmap)
        /\ WellFormedDirmap(m_args.dirmap)

----------------------------------------------------------------------------
(* Claims about the directory-name pass and about reads *)

\* a directory name of the find side stands in buf behind the separator at i
\* and ends at a boundary byte
DirOccurrence(buf, i, to_container) ==
    LET is_sep == buf[i] = "/" \/ (buf[i] = BS /\ i + 1 <= Len(buf) /\ buf[i + 1] = BS)
        sep_len == IF buf[i] = "/" THEN 1 ELSE 2
    IN  is_sep /\ DirmapMatch(buf, i + sep_len, to_container) # 0

\* C25: the directory-name pass is applied in every transform.  What
\* to-container returns holds no native directory name behind a separator and
\* before a boundary, and what to-host returns holds no container directory
\* name there, whether or not the prefix pass rewrote anything.
C25_PassBEveryTransform ==
    /\ t_op = "tc" => \A i \in DOMAIN t_mid : ~DirOccurrence(t_mid, i, TRUE)
    /\ t_op = "tc_th" => \A i \in DOMAIN t_out : ~DirOccurrence(t_out, i, FALSE)

\* C26: read returns slices of the transformed file.  A read through a
\* transform-flagged handle of a file that holds a mapping signature, with no
\* other request running and the file not modified meanwhile, returns the
\* requested bytes of to-container over the whole file, whichever cache
\* serves it.
C26_ReadSlices ==
    ( /\ last.op = "read" /\ last.served \notin {"plain", "empty"}
      /\ last.alone /\ last.clean
      /\ quick_scan_has_mappings(f_ino[last.ino].content) ) =>
        /\ last.rc = "OK"
        /\ last.bytes = Slice(ToContainer(f_ino[last.ino].content), ReadOff, ReadSize)

----------------------------------------------------------------------------
(* The size scenario: three transformable files and one other file are    *)
(* opened, read and looked up by two threads; no request modifies them.    *)

GPaths == {<<"/", "a", ".", "j">>, <<"/", "b", ".", "j">>, <<"/", "c", ".", "j">>}

\* a file without a transformable extension
GPlain == <<"/", "n">>

\* a name that does not exist
GMissing == <<"/", "x">>

\* what the three files begin with: a host path each, or bytes without a
\* signature; the second file is one byte longer, the third two
GContents == {<<"C", ":", BS, BS, "u">>, <<"a">>}

\* a mapping whose container prefix is longer than its host form
GMappings == <<add_mapping(<<"C", ":", "/", "u">>, <<"/", "k", "/", "l", "o", "n", "g">>)>>

\* the requests issued in the size scenario
MaxSizeOps == 5

InitG ==
    /\ Started /\ NoCalls
    /\ source_dir = <<"/", "s">>
    /\ mappings = GMappings
    /\ dir_mappings = <<>>
    /\ NoTransforms /\ NoLookups
    /\ FsStart(GPaths \cup {GPlain, GMissing}, MaxSizeOps)
    /\ f_dir = [p \in {Fpath(q) : q \in GPaths \cup {GPlain, GMissing}} |->
                  IF p = Fpath(<<"/", "a", ".", "j">>) THEN 1
                  ELSE IF p = Fpath(<<"/", "b", ".", "j">>) THEN 2
                  ELSE IF p = Fpath(<<"/", "c", ".", "j">>) THEN 3
                  ELSE IF p = Fpath(GPlain) THEN 4
                  ELSE 0]
    /\ \E c \in GContents :
          f_ino = [i \in 1..4 |->
                     [content |-> IF i <= 3 THEN c \o [k \in 1..(i - 1) |-> "x"] ELSE <<"n">>,
                      mtime |-> 0]]
    /\ h_hist = UNION {Holds(f_dir, i, f_ino[i].mtime, f_ino[i].content) : i \in 1..4}

HandlersG ==
    \E t \in Threads :
        \/ \E p \in GPaths \cup {GPlain} : Open(t, p)
        \/ ReadStat(t)
        \/ ReadLookup(t)
        \/ ReadCopy(t)
        \/ ReadScan(t)
        \/ ReadFull(t)
        \/ \E p \in GPaths \cup {GMissing} : GetattrBegin(t, p)
        \/ GetattrLstat(t)
        \/ GetattrSize(t)
        \/ GetattrInsert(t)

NextG == Reply \/ HandlersG

SpecG == InitG /\ [][NextG]_vars

----------------------------------------------------------------------------
(* Claims about the quick-scan skip and the sizes get-attributes reports   *)

\* the backing path of a mount path
BackingOf(path) == get_source_path(path).dest

\* a read of thread t that missed both caches ends in the quick scan, which
\* finds no signature: the bytes are the backing bytes, and the entry
\* (backing path, mtime of the read's fstat) is in the SkipCache afterwards
ScanRecords ==
    \A t \in Threads :
        (thr[t].pc = "r_scan" /\ thr'[t].pc = "idle" /\ last'.served = "scan") =>
            /\ last'.rc = "OK"
            /\ last'.bytes = Pread(f_ino[thr[t].ino].content, ReadSize, ReadOff)
            /\ \E i \in 1..SCACHE_SLOTS :
                  /\ g_scache'[i].active
                  /\ g_scache'[i].path = BackingOf(thr[t].path)
                  /\ g_scache'[i].mtime = thr[t].st_mtime

\* a read of thread t that looks up while the entry for its path and mtime is
\* in the SkipCache is served by pread and goes no further
SkipServes ==
    \A t \in Threads :
        ( /\ thr[t].pc = "r_lookup" /\ thr'[t].pc # "r_lookup"
          /\ scache_lookup(BackingOf(thr[t].path), thr[t].st_mtime) ) =>
            /\ thr'[t].pc = "idle"
            /\ last'.served = "scache"
            /\ last'.bytes = Pread(f_ino[thr[t].ino].content, ReadSize, ReadOff)
            /\ UNCHANGED <<g_rcache, g_scache>>

\* the entry of slot i is cleared by a request that modifies its path
ScacheInvalidated(i) ==
    /\ g_scache'[i] = [g_scache[i] EXCEPT !.active = FALSE]
    /\ s_idx' = s_idx
    /\ \E t \in Threads :
          /\ thr'[t] # thr[t]
          /\ thr'[t].pc \notin {"idle", "open"}
          /\ g_scache[i].path \in {BackingOf(thr'[t].path), BackingOf(thr'[t].to)}

\* the entry of slot i is overwritten by the record of a later scan, every
\* slot being in use
ScacheReused(i) ==
    /\ \A k \in 1..SCACHE_SLOTS : g_scache[k].active
    /\ i = (s_idx % SCACHE_SLOTS) + 1
    /\ g_scache'[i].active
    /\ \E t \in Threads : thr[t].pc = "r_scan" /\ thr'[t].pc = "idle"

EntriesNow ==
    {i \in 1..RCACHE_SLOTS :
        rcache_match(g_rcache[i], BackingOf(last.path), f_ino[last.ino].mtime)}

\* C28: for a regular transform-eligible file get-attributes reports the
\* cached transformed length if and only if the ReadCache holds an entry for
\* (backing path, current mtime), and the on-disk size otherwise.
C28_GetattrSize ==
    (last.op = "getattr" /\ last.rc = "OK" /\ needs_transform(last.path)) =>
        IF EntriesNow # {}
        THEN \E i \in EntriesNow : last.st_size = Len(g_rcache[i].data)
        ELSE last.st_size = Len(f_ino[last.ino].content)

\* the file of the last reply is cache-resident at its current mtime
Resident ==
    \/ EntriesNow # {}
    \/ scache_lookup(BackingOf(last.path), f_ino[last.ino].mtime)

\* the handle carries the flag exactly on a transformable path and gives the
\* backing descriptor back; on any other path neither mode is requested
HandleAndModes ==
    /\ FH_FD(last.fh) = last.fd
    /\ FH_NEEDS_TRANSFORM(last.fh) = needs_transform(last.path)
    /\ needs_transform(last.path) => (last.keep_cache # last.direct_io)
    /\ ~needs_transform(last.path) => (~last.keep_cache /\ ~last.direct_io)

C30_SizeView ==
    \A u \in Threads :
        ( /\ thr[u].pc = "open" /\ thr[u].keep
          /\ last.op = "getattr" /\ last.rc = "OK" /\ last.path = thr[u].path ) =>
            last.st_size = Len(ToContainer(f_ino[last.ino].content))

----------------------------------------------------------------------------
(* The rename scenario: a file without a transformable extension and one   *)
(* with it are renamed by two threads, any call of the transform that      *)
(* follows the rename failing or none.                                     *)

PPaths == {<<"/", "t">>, <<"/", "u">>, <<"/", "a", ".", "j">>, <<"/", "b", ".", "j">>}

\* what the two files hold at the start: a container path, a container path
\* followed by bytes that take the file over RCACHE_MAX_SIZE, bytes without
\* a path, or nothing
PContents ==
    {<<"/", "k">>,
     <<"/", "k", DQ>> \o [k \in 1..(RCACHE_MAX_SIZE - 2) |-> "x"],
     <<"a">>,
     <<>>}

\* the rename requests issued in the rename scenario
MaxRenames == 2

InitP ==
    /\ Started /\ NoCalls
    /\ source_dir = <<"/", "s">>
    /\ mappings = FsMappings
    /\ dir_mappings = <<>>
    /\ NoTransforms /\ NoLookups
    /\ FsStart(PPaths, MaxRenames)
    /\ f_dir = [p \in {Fpath(q) : q \in PPaths} |->
                  IF p = Fpath(<<"/", "t">>) THEN 1
                  ELSE IF p = Fpath(<<"/", "a", ".", "j">>) THEN 2
                  ELSE 0]
    /\ \E c \in PContents :
          f_ino = [i \in 1..2 |-> [content |-> c, mtime |-> 0]]
    /\ h_hist = UNION {Holds(f_dir, i, f_ino[i].mtime, f_ino[i].content) : i \in 1..2}

HandlersP ==
    \E t \in Threads :
        \/ \E p, q \in PPaths : p # q /\ RenameInval(t, p, q)
        \/ \E fault \in RenameFaults : RenameIO(t, fault)

NextP == Reply \/ HandlersP

SpecP == InitP /\ [][NextP]_vars

\* the content the renamed file holds after the rename of the last reply
AfterRename == f_ino[last.ino].content

\* C31: after rename(from, to) succeeds where `to` has a transformable
\* extension, `from` has none and the renamed file is not empty, the backing
\* file at `to` holds to-host of the content it had before; when both or
\* neither extension is transformable the content is unchanged.
C31_RenamePostTransform ==
    (last.op = "rename" /\ last.rc = "OK" /\ last.alone) =>
        /\ f_dir[BackingOf(last.to)] = last.ino
        /\ ( /\ needs_transform(last.to) /\ ~needs_transform(last.path)
             /\ Len(last.before) > 0 ) => AfterRename = ToHost(last.before)
        /\ (needs_transform(last.to) = needs_transform(last.path)) =>
              AfterRename = last.before

----------------------------------------------------------------------------
(* Claims about the NegCache and the names that come into existence *)

\* C32: once create(p) has returned success, a get-attributes(p) issued
\* afterwards never answers 'no such entry' from the NegCache, under every
\* interleaving of the create with get-attributes requests on p.
C32_CreateVersusGetattr ==
    (last.op = "getattr" /\ last.served = "negcache") =>
        f_dir[BackingOf(last.path)] = 0

\* ccbox_mkdir: the NegCache is invalidated for the path, then mkdir(fpath)
Mkdir(t, path) ==
    /\ Dispatch(t)
    /\ ops_left' = ops_left - 1
    /\ LET r == get_source_path(path)
       IN  IF r.rc # "OK"
           THEN PathFails(t, "mkdir", path, r) /\ UNCHANGED <<g_neg_cache, h_neg, f_dir, f_ino>>
           ELSE /\ g_neg_cache' = neg_cache_invalidate(g_neg_cache, r.dest)
                /\ h_neg' = [h_neg EXCEPT ![r.dest].lost =
                                IF @ = "kept" THEN "invalidated" ELSE @]
                /\ IF f_dir[r.dest] # 0
                   THEN /\ last' = [NoLast EXCEPT !.op = "mkdir", !.path = path,
                                       !.rc = "EEXIST"]
                        /\ UNCHANGED <<f_dir, f_ino>>
                   ELSE /\ f_dir' = [f_dir EXCEPT ![r.dest] = FreeIno(f_dir)]
                        /\ f_ino' = [f_ino EXCEPT ![FreeIno(f_dir)] =
                                        [content |-> <<>>, mtime |-> 0]]
                        /\ last' = [NoLast EXCEPT !.op = "mkdir", !.path = path]
                /\ thr' = Return(t)
    /\ UNCHANGED <<cfg_vars, m_vars, i_vars, t_vars, d_vars, now, f_lock, g_neg_cache_idx, rc_vars, sc_vars, h_hist, h_write>>

\* ccbox_symlink: symlink(target, fpath); no cache is touched
Symlink(t, linkpath) ==
    /\ Dispatch(t)
    /\ ops_left' = ops_left - 1
    /\ LET r == get_source_path(linkpath)
       IN  IF r.rc # "OK"
           THEN PathFails(t, "symlink", linkpath, r) /\ UNCHANGED <<f_dir, f_ino>>
           ELSE /\ IF f_dir[r.dest] # 0
                   THEN /\ last' = [NoLast EXCEPT !.op = "symlink", !.path = linkpath,
                                       !.rc = "EEXIST"]
                        /\ UNCHANGED <<f_dir, f_ino>>
                   ELSE /\ f_dir' = [f_dir EXCEPT ![r.dest] = FreeIno(f_dir)]
                        /\ f_ino' = [f_ino EXCEPT ![FreeIno(f_dir)] =
                                        [content |-> <<>>, mtime |-> 0]]
                        /\ last' = [NoLast EXCEPT !.op = "symlink", !.path = linkpath]
                /\ thr' = Return(t)
    /\ UNCHANGED <<cfg_vars, m_vars, i_vars, t_vars, d_vars, now, f_lock, neg_vars, rc_vars, sc_vars, h_vars>>

\* ccbox_link: link(ff, ft); no cache is touched
Link(t, from, to) ==
    /\ Dispatch(t)
    /\ ops_left' = ops_left - 1
    /\ LET rf == get_source_path(from)
           rt == get_source_path(to)
       IN  IF rf.rc # "OK" \/ rt.rc # "OK"
           THEN /\ PathFails(t, "link", from, IF rf.rc # "OK" THEN rf ELSE rt)
                /\ UNCHANGED f_dir
           ELSE /\ f_dir' = IF f_dir[rf.dest] # 0 /\ f_dir[rt.dest] = 0
                            THEN [f_dir EXCEPT ![rt.dest] = f_dir[rf.dest]]
                            ELSE f_dir
                /\ last' = [NoLast EXCEPT !.op = "link", !.path = from, !.to = to,
                               !.rc = IF f_dir[rf.dest] = 0 THEN "ENOENT"
                                      ELSE IF f_dir[rt.dest] # 0 THEN "EEXIST"
                                      ELSE "OK"]
                /\ thr' = Return(t)
    /\ UNCHANGED <<cfg_vars, m_vars, i_vars, t_vars, d_vars, now, f_ino, f_lock, neg_vars, rc_vars, sc_vars, h_vars>>

\* the requests issued in the sequential scenario
MaxSeqOps == 3

\* the sequential scenario: /y exists, /x and /z do not
InitS ==
    /\ Started /\ NoCalls
    /\ source_dir = <<"/", "s">>
    /\ mappings = FsMappings
    /\ dir_mappings = <<>>
    /\ NoTransforms /\ NoLookups
    /\ FsStart(NPaths, MaxSeqOps)
    /\ f_dir = [p \in {Fpath(q) : q \in NPaths} |->
                  IF p = Fpath(<<"/", "y">>) THEN 1 ELSE 0]
    /\ f_ino = [i \in 1..Cardinality(NPaths) |-> [content |-> <<>>, mtime |-> 0]]
    /\ h_hist = {}

\* no request is in progress
Quiet == \A v \in Threads : ~InRequest(v)

\* one request at a time: a request is issued only when the one before it
\* has returned
HandlersS ==
    \E t \in Threads :
        \/ Quiet /\ \E p \in NPaths : GetattrBegin(t, p)
        \/ GetattrLstat(t)
        \/ GetattrInsert(t)
        \/ Quiet /\ \E p \in NPaths : CreateInval(t, p)
        \/ CreateOpen(t)
        \/ Quiet /\ \E p \in NPaths : UnlinkInval(t, p)
        \/ UnlinkIO(t)
        \/ Quiet /\ \E p \in NPaths : Mkdir(t, p)
        \/ Quiet /\ \E p \in NPaths : Symlink(t, p)
        \/ Quiet /\ \E p, q \in NPaths : p # q /\ Link(t, p, q)
        \/ Quiet /\ \E p, q \in NPaths : p # q /\ RenameInval(t, p, q)
        \/ RenameIO(t, "none")

NextS == Reply \/ Tick \/ HandlersS

SpecS == InitS /\ [][NextS]_vars

\* C33: in a sequential run get-attributes never answers 'no such entry'
\* from the NegCache for a path whose backing object exists, whichever
\* operation brought it into existence.
C33_NegCacheSound ==
    \A p \in DOMAIN f_dir :
        f_dir[p] # 0 =>
            ~(last.op = "getattr" /\ last.served = "negcache" /\ BackingOf(last.path) = p)

----------------------------------------------------------------------------
(* The ReadCache on its own: inserts, lookups and invalidations in any order *)

\* the backing paths the cache is used with
CPaths == {<<"/", "s", "/", "a">>, <<"/", "s", "/", "b">>, <<"/", "s", "/", "c">>}

\* the results handed to rcache_insert: a short one, and one that is one
\* byte over RCACHE_MAX_SIZE
CResults == {<<"d">>, [k \in 1..(RCACHE_MAX_SIZE + 1) |-> "d"]}

\* the calls made on the cache
MaxCacheOps == 5

InitC ==
    /\ Started /\ NoCalls
    /\ source_dir = <<"/", "s">>
    /\ mappings = FsMappings
    /\ dir_mappings = <<>>
    /\ NoTransforms /\ NoLookups
    /\ FsStart(NPaths, MaxCacheOps)
    /\ f_dir = [p \in {Fpath(q) : q \in NPaths} |-> 0]
    /\ f_ino = [i \in 1..Cardinality(NPaths) |-> [content |-> <<>>, mtime |-> 0]]
    /\ h_hist = {}

c_rest == <<cfg_vars, m_vars, i_vars, t_vars, d_vars, fs_vars, neg_vars, sc_vars, h_vars, thr>>

\* rcache_insert(fpath, 0, 0, data, len)
CacheInsert ==
    /\ last = NoLast /\ ops_left > 0
    /\ \E fpath \in CPaths, data \in CResults :
       \E ins \in {rcache_insert(g_rcache, g_rcache_seq, fpath, 0, data)} :
          /\ g_rcache' = ins.cache
          /\ g_rcache_seq' = ins.seq
          /\ last' = [NoLast EXCEPT !.op = "rcache_insert", !.path = fpath, !.bytes = data]
    /\ ops_left' = ops_left - 1
    /\ UNCHANGED c_rest

\* rcache_lookup(fpath, 0, 0)
CacheLookup ==
    /\ last = NoLast /\ ops_left > 0
    /\ \E fpath \in CPaths :
       \E ce \in {rcache_lookup(fpath, 0)} :
          /\ g_rcache' = RcacheTouch(g_rcache, ce)
          /\ g_rcache_seq' = RcacheSeqAfter(ce)
          /\ last' = [NoLast EXCEPT !.op = "rcache_lookup", !.path = fpath,
                         !.served = IF ce # 0 THEN "rcache" ELSE "-"]
    /\ ops_left' = ops_left - 1
    /\ UNCHANGED c_rest

\* rcache_invalidate(fpath)
CacheInvalidate ==
    /\ last = NoLast /\ ops_left > 0
    /\ \E fpath \in CPaths :
          /\ g_rcache' = rcache_invalidate(g_rcache, fpath)
          /\ last' = [NoLast EXCEPT !.op = "rcache_invalidate", !.path = fpath]
    /\ ops_left' = ops_left - 1
    /\ UNCHANGED <<c_rest, g_rcache_seq>>

NextC == Reply \/ CacheInsert \/ CacheLookup \/ CacheInvalidate

SpecC == InitC /\ [][NextC]_vars

\* slot i holds a live entry that the step replaces
Overwritten(i) == g_rcache[i].has_data /\ g_rcache'[i] # g_rcache[i]

\* C34: an insert overwrites a live entry only when no slot is empty, and
\* the entry it overwrites is the live entry with the smallest sequence
\* number; a result longer than RCACHE_MAX_SIZE is never stored.
C34_Eviction ==
    [][ last'.op = "rcache_insert" =>
          /\ \A i \in 1..RCACHE_SLOTS :
                Overwritten(i) =>
                    /\ \A k \in 1..RCACHE_SLOTS : g_rcache[k].has_data
                    /\ \A k \in 1..RCACHE_SLOTS : g_rcache[i].seq <= g_rcache[k].seq
          /\ Len(last'.bytes) > RCACHE_MAX_SIZE => g_rcache' = g_rcache ]_vars

----------------------------------------------------------------------------
(* Several mappings at once: tokens that more than one mapping matches *)

FConfigs ==
    { <<add_mapping(<<"C",":","/","u">>, <<"/","k">>),
        add_mapping(<<"C",":","/","u","/","v">>, <<"/","k","k">>),
        add_mapping(<<"D",":","/","w">>, <<"/","k","/","v">>)>>,
      <<add_mapping(<<"C",":","/","u","/","v">>, <<"/","k","k">>),
        add_mapping(<<"C",":","/","u">>, <<"/","k">>),
        add_mapping(<<"c",":","/","u">>, <<"/","j">>)>>,
      <<add_mapping(<<BS,BS,"s">>, <<"/","k">>),
        add_mapping(<<BS,BS,"s","/","v">>, <<"/","k","k">>),
        add_mapping(<<"/","m","n","t","/","d","/","w">>, <<"/","k">>),
        add_mapping(<<"/","m","n","t","/","d","/","w","/","v">>, <<"/","j">>)>> }

\* what follows a host prefix in a token, the separator written as "/" here;
\* every token is shorter than MAX_PATH_LEN
FTails == {<<>>, <<"/","a">>, <<"/","v">>, <<"/","v","/","a">>, <<"k">>, <<"k","/","a">>}

\* one quoted token: a mapping's host form or container form and a tail
FInputs ==
    UNION {{<<DQ>> \o HostForm(mappings[m]) \o HostSeps(r, ~mappings[m].is_wsl) \o <<DQ>>,
            <<DQ>> \o mappings[m].to \o r \o <<DQ>>} : m \in 1..mapping_count, r \in FTails}

InitF ==
    /\ Started /\ NoCalls
    /\ source_dir = <<"/", "s">>
    /\ mappings \in FConfigs /\ dir_mappings = <<>>
    /\ t_in \in FInputs
    /\ t_mid = <<>> /\ t_out = <<>> /\ t_op = "none"
    /\ NoLookups /\ NoFiles

SpecF == InitF /\ [][NextT]_vars

\* the token between the quotes
Token(buf) == SubSeq(buf, 2, Len(buf) - 1)

\* mapping m's host form matches the token: the test of the read side
ReadMatch(m, tok) ==
    LET n == NormalizeSeps(tok)
        f == mappings[m].from
    IN  IF mappings[m].is_wsl
        THEN HasPrefixAt(tok, 1, f) /\ (Len(tok) = Len(f) \/ tok[Len(f) + 1] = "/")
        ELSE IF mappings[m].is_unc
        THEN HasPrefixAt(n, 1, f)
        ELSE /\ Len(tok) >= 2 /\ tok[2] = ":" /\ tolower(tok[1]) = mappings[m].drive
             /\ HasPrefixAt(n, 3, SubSeq(f, 3, Len(f)))

\* the token as mapping m rewrites it on read
ReadAs(m, tok) ==
    LET n == IF mappings[m].is_wsl THEN tok ELSE NormalizeSeps(tok)
    IN  mappings[m].to \o SubSeq(n, Len(mappings[m].from) + 1, Len(n))

\* mapping m's container form prefixes the token at a path boundary
WriteMatch(m, tok) ==
    LET c == mappings[m].to
    IN  HasPrefixAt(tok, 1, c) /\ (Len(tok) = Len(c) \/ tok[Len(c) + 1] = "/")

\* the token as mapping m rewrites it on write
WriteAs(m, tok) ==
    HostForm(mappings[m])
        \o HostSeps(SubSeq(tok, Len(mappings[m].to) + 1, Len(tok)), ~mappings[m].is_wsl)

\* m is the first mapping in insertion order that satisfies match
FirstOf(match(_, _), m, tok) ==
    match(m, tok) /\ \A k \in 1..(m - 1) : ~match(k, tok)

\* C35: first match wins.  A quoted token is rewritten by to-container with
\* the first mapping in insertion order whose host form matches it, and by
\* to-host with the first mapping in insertion order whose container form
\* prefixes it at a path boundary, whichever later mappings match as well.
C35_FirstMatchWins ==
    /\ t_op # "none" =>
           \A m \in 1..mapping_count :
               FirstOf(ReadMatch, m, Token(t_in)) =>
                   t_mid = <<DQ>> \o ReadAs(m, Token(t_in)) \o <<DQ>>
    /\ t_op = "tc_th" =>
           \A m \in 1..mapping_count :
               FirstOf(WriteMatch, m, Token(t_mid)) =>
                   t_out = <<DQ>> \o WriteAs(m, Token(t_mid)) \o <<DQ>>

\* a token two mappings match on read was read, and the result, which two
\* mappings match on write, was written back; in each direction the later
\* mapping would have given another result
C35_Witness ==
    /\ t_op = "tc_th"
    /\ \E m, k \in 1..mapping_count :
          /\ m < k /\ FirstOf(ReadMatch, m, Token(t_in)) /\ ReadMatch(k, Token(t_in))
          /\ ReadAs(k, Token(t_in)) # ReadAs(m, Token(t_in))
    /\ \E m, k \in 1..mapping_count :
          /\ m < k /\ FirstOf(WriteMatch, m, Token(t_mid)) /\ WriteMatch(k, Token(t_mid))
          /\ WriteAs(k, Token(t_mid)) # WriteAs(m, Token(t_mid))

----------------------------------------------------------------------------
(* Arbitrary bytes: buffers that hold NUL bytes next to path tokens *)

\* the pieces of a buffer of arbitrary bytes
BPieces ==
    {HostForm(mappings[m]) : m \in 1..mapping_count}
    \cup {mappings[m].to : m \in 1..mapping_count}
    \cup {<<NUL>>, <<"a">>, <<DQ>>}

InitB ==
    /\ Started /\ NoCalls
    /\ source_dir = <<"/", "s">>
    /\ \E c \in TConfigs : mappings = c.maps /\ dir_mappings = c.dirs
    /\ t_in \in PieceBufs(BPieces, MaxPieces)
    /\ t_mid = <<>> /\ t_out = <<>> /\ t_op = "none"
    /\ NoLookups /\ NoFiles

SpecB == InitB /\ [][NextT]_vars

\* the bytes of buf from k on stand outside every path token: they begin at a
\* delimiter, where every token ends, and hold none of the bytes a host form,
\* a container form or a directory name begins with
OutsideTokens(buf, k) ==
    /\ buf[k] \in JsonDelims
    /\ \A j \in k..Len(buf) : buf[j] \notin {"/", BS, ":"}

IsSuffix(s, buf) ==
    Len(s) <= Len(buf) /\ SubSeq(buf, Len(buf) - Len(s) + 1, Len(buf)) = s

\* C36: non-matching bytes are preserved.  For every buffer, NUL bytes
\* included, the bytes that follow the last path token reach the output of
\* to-container and of to-host unchanged and in their order, up to the last
\* byte of the input.
C36_BytesPreserved ==
    /\ t_op # "none" =>
           \A k \in 1..Len(t_in) :
               OutsideTokens(t_in, k) => IsSuffix(SubSeq(t_in, k, Len(t_in)), t_mid)
    /\ t_op = "tc_th" =>
           \A k \in 1..Len(t_mid) :
               OutsideTokens(t_mid, k) => IsSuffix(SubSeq(t_mid, k, Len(t_mid)), t_out)

----------------------------------------------------------------------------
(* Claims about the segment boundary on the read side *)

\* b begins with the host form of the drive or UNC mapping m followed by a
\* further character of the same path segment
HostPrefixInsideSegment(b, m) ==
    /\ ~mappings[m].is_wsl
    /\ HasPrefixAt(b, 1, HostForm(mappings[m]))
    /\ Len(b) > Len(HostForm(mappings[m]))
    /\ b[Len(HostForm(mappings[m])) + 1] \notin JsonDelims \cup {"/", BS, NUL}

\* C37: segment boundary on read.  A drive-form or UNC-form token made of a
\* mapping's host prefix immediately followed by further name characters is
\* left unchanged by to-container.
C37_ReadBoundary ==
    t_op = "tc" =>
        \A m \in 1..mapping_count :
            HostPrefixInsideSegment(t_in, m) =>
                HasPrefixAt(t_mid, 1, SubSeq(t_in, 1, Len(HostForm(mappings[m])) + 1))

----------------------------------------------------------------------------
(* Claims about the names read-directory hands to the filler *)

\* C38: read-directory name uniqueness.  Whatever the dir mappings and the
\* file types of the entries, no visible name is passed to the filler for two
\* entries of the backing directory.
C38_UniqueNames ==
    d_done => \A l, k \in d_listing : l.name = k.name => l.from = k.from

----------------------------------------------------------------------------
(* The interposition library over the life of a process: any number of     *)
(* intercepted calls, between which the process changes its environment    *)
(* variable and its working directory.                                     *)

\* the values of CCBOX_WIN_ORIGINAL_PATH and of the working directory
LEnvs ==
    [win : {NULLP, <<>>, <<"D", ":", "/", "p", "/">>, <<"E", ":", "/", "q">>},
     cwd : {NULLP, <<"/", "w", "/">>, <<"/", "v">>}]

\* the paths the callers pass
LPaths ==
    { NULLP, <<"D", ":", "/", "p", "/", "f">>, <<"E", ":", "/", "q", "/", "f">>,
      <<"/", "v">> }

\* the wrappers the process calls, chdir apart
LCalls == {"open", "stat", "unlink"}

NullPair == [win |-> NULLP, cont |-> NULLP]

\* the prefix pair in force
Pair == [win |-> g_windows_path, cont |-> g_container_path]

InitL ==
    /\ source_dir = <<>> /\ mappings = <<>> /\ dir_mappings = <<>>
    /\ Started /\ NoTransforms /\ NoLookups /\ NoFiles
    /\ i_env \in LEnvs
    /\ g_initialized = 0 /\ g_windows_path = NULLP /\ g_container_path = NULLP
    /\ g_windows_len = 0 /\ g_container_len = 0
    /\ real_absent = {}
    /\ errno = "0"
    /\ i_call = [fn |-> "-", args |-> <<>>, called |-> FALSE, real |-> <<>>,
                 ret |-> "-", oom |-> {}, env |-> i_env]

\* a wrapper runs init_path_mapping and translate_input and calls its real
\* entry point; nomem: a strdup of init_path_mapping returns NULL.  The call
\* keeps the environment it was made in (env).
Intercepted(fn, args, oom, nomem) ==
    /\ nomem => (g_initialized = 0 /\ InitPrefixes(i_env).win # NULLP)
    /\ \E g \in {IF nomem THEN NullPair ELSE init_path_mapping} :
          /\ g_initialized' = 1
          /\ g_windows_path' = g.win
          /\ g_container_path' = g.cont
          /\ g_windows_len' = strlen(g.win)
          /\ g_container_len' = strlen(g.cont)
          /\ i_call' = [fn |-> fn, args |-> args, called |-> TRUE,
                        real |-> [k \in DOMAIN args |-> translate_input(g, args[k], k \in oom)],
                        ret |-> "result", oom |-> oom, env |-> i_env]
    /\ UNCHANGED <<errno, real_absent>>

\* open, stat, unlink
LaterCall ==
    /\ \E fn \in LCalls, path \in LPaths, oom \in SUBSET {1}, nomem \in BOOLEAN :
           Intercepted(fn, <<path>>, oom, nomem)
    /\ UNCHANGED <<i_env, i_rest>>

\* chdir: the working directory becomes the path the real chdir received,
\* when that is an absolute path
ChdirCall ==
    /\ \E path \in LPaths, oom \in SUBSET {1}, nomem \in BOOLEAN :
           Intercepted("chdir", <<path>>, oom, nomem)
    /\ i_env' = IF i_call'.real[1] # NULLP /\ HasPrefixAt(i_call'.real[1], 1, <<"/">>)
                THEN [i_env EXCEPT !.cwd = i_call'.real[1]]
                ELSE i_env
    /\ UNCHANGED i_rest

\* the process sets or unsets CCBOX_WIN_ORIGINAL_PATH
Setenv ==
    /\ \E w \in {e.win : e \in LEnvs} : w # i_env.win /\ i_env' = [i_env EXCEPT !.win = w]
    /\ UNCHANGED <<g_initialized, g_windows_path, g_container_path, g_windows_len,
                   g_container_len, real_absent, errno, i_call, i_rest>>

NextL == LaterCall \/ ChdirCall \/ Setenv

SpecL == InitL /\ [][NextL]_vars

\* this step is an intercepted call
CallStep == i_call' # i_call

\* C39: initialisation happens at most once.  The first intercepted call
\* reads the prefix pair from the environment variable and the working
\* directory of that moment, a trailing separator stripped from each, or
\* stores no pair; from then on no step changes the pair, and every later
\* call is translated with it, whatever the environment variable and the
\* working directory have become and whether or not the first call stored a
\* pair.
C39_InitOnce ==
    [][ /\ (g_initialized = 0 /\ CallStep) =>
               /\ g_initialized' = 1
               /\ Pair' \in {InitPrefixes(i_env), NullPair}
        /\ g_initialized = 1 =>
               /\ g_initialized' = 1
               /\ Pair' = Pair
               /\ CallStep =>
                      \A k \in DOMAIN i_call'.args :
                          i_call'.real[k]
                              = translate_input(Pair, i_call'.args[k], k \in i_call'.oom)
      ]_vars

\* a call made when the environment named E:/q and /v was translated with
\* the pair D:/p, /w an earlier call had read
C39_Witness ==
    /\ g_initialized = 1
    /\ Pair = [win |-> <<"D", ":", "/", "p">>, cont |-> <<"/", "w">>]
    /\ i_call.env = [win |-> <<"E", ":", "/", "q">>, cwd |-> <<"/", "v">>]
    /\ i_call.args = <<<<"D", ":", "/", "p", "/", "f">>>>
    /\ i_call.real = <<<<"/", "w", "/", "f">>>>

----------------------------------------------------------------------------
(* Two threads make their first intercepted calls at the same time.  The    *)
(* library was loaded, so fakepath_init has resolved the real entry points; *)
(* the prefix pair is not initialised.  The statements of                   *)
(* init_path_mapping interleave, one statement a step; a thread reads the   *)
(* four globals of windows_to_container in one step.                        *)

XThreads == {1, 2}

\* the values of CCBOX_WIN_ORIGINAL_PATH and of the working directory
XEnvs ==
    [win : {NULLP, <<"D", ":", "/", "p">>, <<"D", ":", "/", "p", "/">>},
     cwd : {<<"/", "w">>, <<"/", "w", "/">>}]

\* the paths the callers pass
XPaths == {<<"D", ":", "/", "p", "/", "f">>, <<"D", ":", "/", "p">>, <<"/", "x">>}

InitX ==
    /\ source_dir = <<>> /\ mappings = <<>> /\ dir_mappings = <<>>
    /\ Started /\ NoTransforms /\ NoLookups
    /\ now = 0 /\ f_dir = <<>> /\ f_ino = <<>> /\ f_lock = <<>>
    /\ g_neg_cache = <<>> /\ g_neg_cache_idx = 0
    /\ g_rcache = <<>> /\ g_rcache_seq = 0 /\ g_scache = <<>> /\ s_idx = 0
    /\ ops_left = 0 /\ last = <<>>
    /\ h_hist = {} /\ h_write = <<>> /\ h_neg = <<>>
    /\ thr = [t \in XThreads |-> [pc |-> "idle", path |-> NULLP, real |-> NULLP]]
    /\ i_env \in XEnvs
    /\ g_initialized = 0 /\ g_windows_path = NULLP /\ g_container_path = NULLP
    /\ g_windows_len = 0 /\ g_container_len = 0
    /\ real_absent = {} /\ errno = "0" /\ i_call = <<>>

x_rest == <<cfg_vars, m_vars, t_vars, d_vars, fs_vars, neg_vars, rc_vars, sc_vars,
            h_vars, ops_left, last, i_env, real_absent, errno, i_call>>

x_globals == <<g_initialized, g_windows_path, g_container_path, g_windows_len,
               g_container_len>>

\* thread t enters a wrapper with a path; init_real_functions returns at once
Enter(t) ==
    /\ thr[t].pc = "idle"
    /\ \E path \in XPaths :
           thr' = [thr EXCEPT ![t] = [pc |-> "check", path |-> path, real |-> NULLP]]
    /\ UNCHANGED <<x_globals, x_rest>>

\* one statement of init_path_mapping by thread t; oom: strdup returns NULL
InitStep(t, oom) ==
    /\ thr[t].pc \in {"check", "set", "env", "wdup", "wlen", "wstrip", "cdup", "clen", "cstrip"}
    /\ oom => thr[t].pc \in {"wdup", "cdup"}
    /\ \E pc \in {thr[t].pc} :
       LET goto(l) == thr' = [thr EXCEPT ![t].pc = l]
       IN  CASE pc = "check" ->
                  /\ goto(IF g_initialized # 0 THEN "translate" ELSE "set")
                  /\ UNCHANGED x_globals
             [] pc = "set" ->
                  /\ g_initialized' = 1
                  /\ goto("env")
                  /\ UNCHANGED <<g_windows_path, g_container_path, g_windows_len, g_container_len>>
             [] pc = "env" ->
                  /\ goto(IF i_env.win = NULLP \/ i_env.win = <<>> \/ i_env.cwd = NULLP
                          THEN "translate" ELSE "wdup")
                  /\ UNCHANGED x_globals
             [] pc = "wdup" ->
                  /\ g_windows_path' = IF oom THEN NULLP ELSE i_env.win
                  /\ goto(IF oom THEN "translate" ELSE "wlen")
                  /\ UNCHANGED <<g_initialized, g_container_path, g_windows_len, g_container_len>>
             [] pc = "wlen" ->
                  /\ g_windows_len' = strlen(g_windows_path)
                  /\ goto("wstrip")
                  /\ UNCHANGED <<g_initialized, g_windows_path, g_container_path, g_container_len>>
             [] pc = "wstrip" ->
                  /\ IF g_windows_len > 0 /\ g_windows_path # NULLP
                        /\ g_windows_len <= Len(g_windows_path)
                        /\ g_windows_path[g_windows_len] \in {"/", BS}
                     THEN /\ g_windows_len' = g_windows_len - 1
                          /\ g_windows_path' = SubSeq(g_windows_path, 1, g_windows_len - 1)
                     ELSE UNCHANGED <<g_windows_len, g_windows_path>>
                  /\ goto("cdup")
                  /\ UNCHANGED <<g_initialized, g_container_path, g_container_len>>
             [] pc = "cdup" ->
                  /\ g_container_path' = IF oom THEN NULLP ELSE i_env.cwd
                  /\ g_windows_path' = IF oom THEN NULLP ELSE g_windows_path
                  /\ goto(IF oom THEN "translate" ELSE "clen")
                  /\ UNCHANGED <<g_initialized, g_windows_len, g_container_len>>
             [] pc = "clen" ->
                  /\ g_container_len' = strlen(g_container_path)
                  /\ goto("cstrip")
                  /\ UNCHANGED <<g_initialized, g_windows_path, g_container_path, g_windows_len>>
             [] pc = "cstrip" ->
                  /\ IF g_container_len > 0 /\ g_container_path # NULLP
                        /\ g_container_len <= Len(g_container_path)
                        /\ g_container_path[g_container_len] = "/"
                     THEN /\ g_container_len' = g_container_len - 1
                          /\ g_container_path' = SubSeq(g_container_path, 1, g_container_len - 1)
                     ELSE UNCHANGED <<g_container_len, g_container_path>>
                  /\ goto("translate")
                  /\ UNCHANGED <<g_initialized, g_windows_path, g_windows_len>>
    /\ UNCHANGED x_rest

\* windows_to_container(path) on the globals as they stand: the two pointers,
\* g_windows_len and g_container_len are read where the code reads them
windows_to_container_now(path) ==
    LET n    == g_windows_len
        take(s) == SubSeq(s, 1, IF n < Len(s) THEN n ELSE Len(s))
    IN  IF g_container_path = NULLP \/ g_windows_path = NULLP \/ path = NULLP THEN NULLP
        ELSE IF LowerStr(take(path)) # LowerStr(take(g_windows_path)) THEN NULLP
        ELSE IF Len(path) > n /\ path[n + 1] \notin {"/", BS} THEN NULLP
        ELSE SubSeq(g_container_path, 1,
                    IF g_container_len < Len(g_container_path)
                    THEN g_container_len ELSE Len(g_container_path))
                 \o BackslashToSlash(SubSeq(path, n + 1, Len(path)))

\* translate_input and the call of the real entry point with its result
TranslateStep(t) ==
    /\ thr[t].pc = "translate"
    /\ \E translated \in {windows_to_container_now(thr[t].path)} :
           thr' = [thr EXCEPT ![t].pc = "done",
                              ![t].real = IF translated # NULLP THEN translated
                                          ELSE thr[t].path]
    /\ UNCHANGED <<x_globals, x_rest>>

NextX ==
    \E t \in XThreads :
        \/ Enter(t)
        \/ \E oom \in BOOLEAN : InitStep(t, oom)
        \/ TranslateStep(t)

SpecX == InitX /\ [][NextX]_vars

\* the pair a finished initialisation stores in this environment
CompletePair == InitPrefixes(i_env)

\* C40: concurrent first use.  Every call that has delegated passed to its
\* real entry point either its path translated with the complete prefix pair
\* or its path unchanged.
C40_ConcurrentFirstUse ==
    \A t \in XThreads :
        thr[t].pc = "done" =>
            thr[t].real \in {translate_input(CompletePair, thr[t].path, FALSE), thr[t].path}

====
